---- MODULE Spec2Model ----
(***************************************************************************)
(* Domain audit trail of c-warren/cadence: the write-time change summary   *)
(* (ComputeChangeSummary), the read-time failover differ                   *)
(* (ComputeClusterFailovers), the list filter (shouldIncludeEvent) and the *)
(* get path (GetFailoverEvent) over the snapshot codec.                    *)
(***************************************************************************)
EXTENDS Integers, Sequences, FiniteSets, TLC

VARIABLES
    before,     \* the snapshot taken before the mutation (*persistence.GetDomainResponse)
    after,      \* the snapshot taken after the mutation
    pc,         \* which operation has run
    summary,    \* the *ChangeSummary ComputeChangeSummary returned
    failovers,  \* the []*types.ClusterFailover ComputeClusterFailovers returned
    comment,    \* the persisted summary text handed to shouldIncludeEvent
    filters,    \* the *types.ListFailoverHistoryRequestFilters of the list request
    included,   \* what shouldIncludeEvent returned
    shuttingDown, \* wh.isShuttingDown()
    request,    \* the *types.GetFailoverEventRequest
    storage,    \* what GetDomainAuditLogEntry returned to GetFailoverEvent: [resp, err]
    getResult,  \* what GetFailoverEvent returned: [resp, err]
    original,   \* the snapshot handed to SerializeAndCompress
    payload,    \* the bytes handed to DecompressAndDeserialize
    restored,   \* what DecompressAndDeserialize returned: [err, domain]
    auditLog,   \* the audit log entries the storage collaborator holds for the domain
    listRequest, \* the *types.ListFailoverHistoryRequest
    readRequest, \* the request ListFailoverHistory made to ReadDomainAuditLog
    readResp,   \* what ReadDomainAuditLog returned: [resp, err]
    listResult, \* what ListFailoverHistory returned: [resp, err]
    compareErr, \* the error the last call of comparison.go returned
    updateRequest, \* the *types.UpdateDomainRequest handed to DetermineOperationType
    operation,  \* the persistence.DomainOperationType DetermineOperationType returned
    args,       \* the snapshots, summary text and filters concurrent calls are handed
    heap,       \* the objects the concurrent calls have allocated, by address
    calls,      \* the concurrent calls: function, position, locals and result of each
    rwmutex,    \* the sync.RWMutex of the concurrent priority queue
    priorityQueue, \* the sequential queue it guards, its items in priority order
    callers     \* the goroutines calling the queue: position, operation and result of each

\* The variables of the codec calls and those of the list path.
codecVars == <<original, payload, restored>>
listVars == <<auditLog, listRequest, readRequest, readResp, listResult>>
classifyVars == <<updateRequest, operation>>
pureVars == <<args, heap, calls>>
queueVars == <<rwmutex, priorityQueue, callers>>

vars == <<before, after, pc, summary, failovers, comment, filters, included,
          shuttingDown, request, storage, getResult, codecVars, listVars, compareErr,
          classifyVars, pureVars, queueVars>>

\* A nil pointer or nil map of the Go program.
NIL == [nil |-> TRUE]

\* A variable an operation has not written yet.
NONE == [none |-> TRUE]

\* No codec call and no list request is under way.
CodecIdle == original = NONE /\ payload = NONE /\ restored = NONE
ClassifyIdle == updateRequest = NONE /\ operation = NONE
PureIdle == args = NONE /\ heap = NONE /\ calls = NONE
QueueIdle == rwmutex = NONE /\ priorityQueue = NONE /\ callers = NONE
ListIdle ==
    /\ auditLog = NONE
    /\ listRequest = NONE
    /\ readRequest = NONE
    /\ readResp = NONE
    /\ listResult = NONE

-----------------------------------------------------------------------------
(* Input domains *)

\* A Go slice is the sequence of its elements. A nil slice and an empty one are both
\* <<>>: the program only takes len() of, ranges over and appends to its slices.
NilSlice == <<>>

ClusterNames == {"", "cluster1", "cluster2"}
ScopeNames == {"region", "zone"}
AttrNames == {"us-east-1", "us-west-1"}

\* The largest number of cluster attributes of one snapshot, and of the two snapshots
\* of a mutation together when they differ.
MaxAttributes == 2

\* types.ActiveClusterInfo
ActiveClusterInfo(name, version) ==
    [ActiveClusterName |-> name, FailoverVersion |-> version]

ActiveClusterInfos ==
    { ActiveClusterInfo("cluster1", 100), ActiveClusterInfo("cluster1", 101),
      ActiveClusterInfo("cluster2", 101), ActiveClusterInfo("", 100) }

\* A Go map with keys among K and values in V. A map without entries is the nil map:
\* the program ranges over, indexes and takes len() of a nil map as of an empty one.
Maps(K, V) == UNION { [D -> V] : D \in (SUBSET K) \ {{}} }

\* len() of a map; a nil one has length 0.
Length(x) == IF x = NIL THEN 0 ELSE Cardinality(DOMAIN x)

\* types.ClusterAttributeScope
ClusterAttributeScopes ==
    {[ClusterAttributes |-> NIL]} \cup
    {[ClusterAttributes |-> m] : m \in Maps(AttrNames, ActiveClusterInfos)}

RECURSIVE SumOver(_, _)
SumOver(f, keys) ==
    IF keys = {} THEN 0
    ELSE LET k == CHOOSE x \in keys : TRUE
         IN Length(f[k].ClusterAttributes) + SumOver(f, keys \ {k})

\* types.ActiveClusters
ActiveClustersSet ==
    {[AttributeScopes |-> NIL]} \cup
    {[AttributeScopes |-> m] :
        m \in {s \in Maps(ScopeNames, ClusterAttributeScopes) :
                  SumOver(s, DOMAIN s) <= MaxAttributes}}

\* persistence.DomainInfo
DomainInfo(id, name) == [ID |-> id, Name |-> name]

\* persistence.DomainConfig
DomainConfig(retention) == [Retention |-> retention]

\* persistence.ClusterReplicationConfig
ClusterReplicationConfig(name) == [ClusterName |-> name]

\* persistence.DomainReplicationConfig of the snapshots compared: the comparison reads
\* no cluster list, which is left nil.
ReplicationConfigs ==
    [ActiveClusterName : ClusterNames, Clusters : {NilSlice},
     ActiveClusters : {NIL} \cup ActiveClustersSet]

\* persistence.GetDomainResponse of the snapshots compared: the two snapshots of a
\* mutation are of one domain, and the comparison reads only ReplicationConfig.
Snapshots ==
    [Info : {DomainInfo("test-domain", "")}, Config : {NIL},
     ReplicationConfig : {NIL} \cup ReplicationConfigs]

\* The zero persistence.GetDomainResponse
ZeroDomain == [Info |-> NIL, Config |-> NIL, ReplicationConfig |-> NIL]

\* The number of cluster attributes of a snapshot.
AttributeCount(s) ==
    IF s.ReplicationConfig = NIL THEN 0
    ELSE IF s.ReplicationConfig.ActiveClusters = NIL THEN 0
    ELSE IF s.ReplicationConfig.ActiveClusters.AttributeScopes = NIL THEN 0
    ELSE LET m == s.ReplicationConfig.ActiveClusters.AttributeScopes
         IN SumOver(m, DOMAIN m)

\* The before and after snapshots of one mutation, those of an update that left the
\* snapshot as it was among them.
Mutations ==
    {m \in Snapshots \X Snapshots :
        AttributeCount(m[1]) + AttributeCount(m[2]) <= MaxAttributes}
    \cup {<<s, s>> : s \in Snapshots}

-----------------------------------------------------------------------------
(* The orders in which one call ranges over its maps *)

Perms(S) == {p \in [1..Cardinality(S) -> S] : \A i, j \in 1..Cardinality(S) : p[i] = p[j] => i = j}

IterationOrders ==
    [scopes : Perms(ScopeNames), names : [ScopeNames -> Perms(AttrNames)]]

\* The members of set S in the order perm visits them.
InOrder(S, perm) == SelectSeq(perm, LAMBDA k : k \in S)

\* The keys of map m in the order perm visits them.
KeysInOrder(m, perm) == InOrder(DOMAIN m, perm)

-----------------------------------------------------------------------------
(* comparison.go *)

\* ClusterAttributeRef
ClusterAttributeRef(scope, name) == [Scope |-> scope, Name |-> name]

\* compareScopeAttributes comparing the whole ActiveClusterInfo, version included.
RECURSIVE compareScopeAttributes_WholeInfo(_, _, _, _)
compareScopeAttributes_WholeInfo(scope, beforeCA, afterCA, names) ==
    IF names = <<>> THEN <<>>
    ELSE LET name == Head(names)
             rest == compareScopeAttributes_WholeInfo(scope, beforeCA, afterCA, Tail(names))
         IN IF name \notin DOMAIN beforeCA
            THEN rest
            ELSE IF beforeCA[name] # afterCA[name]
                 THEN <<ClusterAttributeRef(scope, name)>> \o rest
                 ELSE rest

\* compareScopeAttributes reporting a name that before lacks as changed.
RECURSIVE compareScopeAttributes_Additions(_, _, _, _)
compareScopeAttributes_Additions(scope, beforeCA, afterCA, names) ==
    IF names = <<>> THEN <<>>
    ELSE LET name == Head(names)
             rest == compareScopeAttributes_Additions(scope, beforeCA, afterCA, Tail(names))
         IN IF name \notin DOMAIN beforeCA
            THEN <<ClusterAttributeRef(scope, name)>> \o rest
            ELSE IF beforeCA[name].ActiveClusterName # afterCA[name].ActiveClusterName
                 THEN <<ClusterAttributeRef(scope, name)>> \o rest
                 ELSE rest

\* compareScopeAttributes reporting every name both sides have, changed or not.
RECURSIVE compareScopeAttributes_Unconditional(_, _, _, _)
compareScopeAttributes_Unconditional(scope, beforeCA, afterCA, names) ==
    IF names = <<>> THEN <<>>
    ELSE LET name == Head(names)
             rest == compareScopeAttributes_Unconditional(scope, beforeCA, afterCA,
                                                          Tail(names))
         IN IF name \notin DOMAIN beforeCA
            THEN rest
            ELSE <<ClusterAttributeRef(scope, name)>> \o rest

\* The inner loop of compareClusterAttributes: the names of one scope of after.
RECURSIVE compareScopeAttributes(_, _, _, _)
compareScopeAttributes(scope, beforeCA, afterCA, names) ==
    IF names = <<>> THEN <<>>
    ELSE LET name == Head(names)
             rest == compareScopeAttributes(scope, beforeCA, afterCA, Tail(names))
         IN IF name \notin DOMAIN beforeCA
            THEN rest
            ELSE IF beforeCA[name].ActiveClusterName # afterCA[name].ActiveClusterName
                 THEN <<ClusterAttributeRef(scope, name)>> \o rest
                 ELSE rest

\* The outer loop of compareClusterAttributes: the scopes of after.
RECURSIVE compareScopes(_, _, _, _)
compareScopes(beforeScopes, afterScopes, scopes, ord) ==
    IF scopes = <<>> THEN <<>>
    ELSE LET scope == Head(scopes)
             rest == compareScopes(beforeScopes, afterScopes, Tail(scopes), ord)
         IN IF scope \notin DOMAIN beforeScopes
            THEN rest
            ELSE IF \/ afterScopes[scope].ClusterAttributes = NIL
                    \/ beforeScopes[scope].ClusterAttributes = NIL
                 THEN rest
                 ELSE compareScopeAttributes(
                          scope,
                          beforeScopes[scope].ClusterAttributes,
                          afterScopes[scope].ClusterAttributes,
                          KeysInOrder(afterScopes[scope].ClusterAttributes,
                                      ord.names[scope])) \o rest

compareClusterAttributes(beforeAC, afterAC, ord) ==
    IF beforeAC = NIL \/ afterAC = NIL THEN NilSlice
    ELSE IF beforeAC.AttributeScopes = NIL \/ afterAC.AttributeScopes = NIL THEN NilSlice
    ELSE compareScopes(beforeAC.AttributeScopes, afterAC.AttributeScopes,
                       KeysInOrder(afterAC.AttributeScopes, ord.scopes), ord)

\* ComputeChangeSummary recording the changed field but not setting the flag.
ComputeChangeSummary_NoFlag(b, a, ord) ==
    LET s0 == [ChangedFields |-> <<>>,
               DefaultClusterChanged |-> FALSE,
               ClusterAttributesChanged |-> <<>>]
    IN IF b.ReplicationConfig # NIL /\ a.ReplicationConfig # NIL
       THEN LET s1 == IF b.ReplicationConfig.ActiveClusterName
                            # a.ReplicationConfig.ActiveClusterName
                      THEN [s0 EXCEPT !.ChangedFields = Append(@, "ActiveClusterName")]
                      ELSE s0
                changedAttrs == compareClusterAttributes(
                                    b.ReplicationConfig.ActiveClusters,
                                    a.ReplicationConfig.ActiveClusters, ord)
            IN IF Len(changedAttrs) > 0
               THEN [s1 EXCEPT !.ChangedFields = Append(@, "ActiveClusters"),
                               !.ClusterAttributesChanged = changedAttrs]
               ELSE s1
       ELSE s0

\* ComputeChangeSummary taking a missing replication configuration for one with an empty
\* default cluster and no active clusters, as ComputeClusterFailovers does.
ComputeChangeSummary_MissingAsEmpty(b, a, ord) ==
    LET s0 == [ChangedFields |-> <<>>,
               DefaultClusterChanged |-> FALSE,
               ClusterAttributesChanged |-> <<>>]
        beforeCluster == IF b.ReplicationConfig # NIL
                         THEN b.ReplicationConfig.ActiveClusterName ELSE ""
        afterCluster == IF a.ReplicationConfig # NIL
                        THEN a.ReplicationConfig.ActiveClusterName ELSE ""
        beforeAttrs == IF b.ReplicationConfig # NIL
                       THEN b.ReplicationConfig.ActiveClusters ELSE NIL
        afterAttrs == IF a.ReplicationConfig # NIL
                      THEN a.ReplicationConfig.ActiveClusters ELSE NIL
        s1 == IF beforeCluster # afterCluster
              THEN [s0 EXCEPT !.ChangedFields = Append(@, "ActiveClusterName"),
                              !.DefaultClusterChanged = TRUE]
              ELSE s0
        changedAttrs == compareClusterAttributes(beforeAttrs, afterAttrs, ord)
    IN IF Len(changedAttrs) > 0
       THEN [s1 EXCEPT !.ChangedFields = Append(@, "ActiveClusters"),
                       !.ClusterAttributesChanged = changedAttrs]
       ELSE s1

\* ComputeChangeSummary checking the cluster attributes before the default cluster.
ComputeChangeSummary_AttributesBeforeDefault(b, a, ord) ==
    LET s0 == [ChangedFields |-> <<>>,
               DefaultClusterChanged |-> FALSE,
               ClusterAttributesChanged |-> <<>>]
    IN IF b.ReplicationConfig # NIL /\ a.ReplicationConfig # NIL
       THEN LET changedAttrs == compareClusterAttributes(
                                    b.ReplicationConfig.ActiveClusters,
                                    a.ReplicationConfig.ActiveClusters, ord)
                s1 == IF Len(changedAttrs) > 0
                      THEN [s0 EXCEPT !.ChangedFields = Append(@, "ActiveClusters"),
                                      !.ClusterAttributesChanged = changedAttrs]
                      ELSE s0
            IN IF b.ReplicationConfig.ActiveClusterName
                     # a.ReplicationConfig.ActiveClusterName
               THEN [s1 EXCEPT !.ChangedFields = Append(@, "ActiveClusterName"),
                               !.DefaultClusterChanged = TRUE]
               ELSE s1
       ELSE s0

ComputeChangeSummary(b, a, ord) ==
    LET s0 == [ChangedFields |-> <<>>,
               DefaultClusterChanged |-> FALSE,
               ClusterAttributesChanged |-> <<>>]
    IN IF b.ReplicationConfig # NIL /\ a.ReplicationConfig # NIL
       THEN LET s1 == IF b.ReplicationConfig.ActiveClusterName
                            # a.ReplicationConfig.ActiveClusterName
                      THEN [s0 EXCEPT !.ChangedFields = Append(@, "ActiveClusterName"),
                                      !.DefaultClusterChanged = TRUE]
                      ELSE s0
                changedAttrs == compareClusterAttributes(
                                    b.ReplicationConfig.ActiveClusters,
                                    a.ReplicationConfig.ActiveClusters, ord)
            IN IF Len(changedAttrs) > 0
               THEN [s1 EXCEPT !.ChangedFields = Append(@, "ActiveClusters"),
                               !.ClusterAttributesChanged = changedAttrs]
               ELSE s1
       ELSE s0

\* The scopes of one side of computeClusterAttributeChanges; none when the side is nil.
ScopesOf(attrs) ==
    IF attrs # NIL /\ attrs.AttributeScopes # NIL THEN DOMAIN attrs.AttributeScopes ELSE {}

\* beforeScopeData, beforeExists = beforeAttrs.AttributeScopes[scope]
ScopeExists(attrs, scope) == scope \in ScopesOf(attrs)

ScopeData(attrs, scope) ==
    IF ScopeExists(attrs, scope) THEN attrs.AttributeScopes[scope]
    ELSE [ClusterAttributes |-> NIL]

\* The names one side adds to allNames.
NamesOf(attrs, scope) ==
    IF ScopeExists(attrs, scope) /\ ScopeData(attrs, scope).ClusterAttributes # NIL
    THEN DOMAIN ScopeData(attrs, scope).ClusterAttributes
    ELSE {}

\* beforeInfo, beforeHasInfo = beforeScopeData.ClusterAttributes[name]
HasInfo(attrs, scope, name) == name \in NamesOf(attrs, scope)

\* The cluster name and version one side resolves to: "" and 0 when it has no info.
ResolvedInfo(attrs, scope, name) ==
    IF HasInfo(attrs, scope, name)
    THEN LET info == ScopeData(attrs, scope).ClusterAttributes[name]
         IN ActiveClusterInfo(info.ActiveClusterName, info.FailoverVersion)
    ELSE ActiveClusterInfo("", 0)

\* types.ClusterFailover of one attribute, built without its ClusterAttribute.
AttributeFailover_Unnamed(from, to, scope, name) ==
    [FromCluster |-> from,
     ToCluster |-> to,
     ClusterAttribute |-> NIL,
     IsDefaultCluster |-> FALSE]

\* types.ClusterFailover of one attribute
AttributeFailover(from, to, scope, name) ==
    [FromCluster |-> from,
     ToCluster |-> to,
     ClusterAttribute |-> [Scope |-> scope, Name |-> name],
     IsDefaultCluster |-> FALSE]

\* The inner loop of computeClusterAttributeChanges recording every name, changed or not.
RECURSIVE attributeChangesOfScope_EveryName(_, _, _, _)
attributeChangesOfScope_EveryName(beforeAttrs, afterAttrs, scope, names) ==
    IF names = <<>> THEN <<>>
    ELSE LET name == Head(names)
             rest == attributeChangesOfScope_EveryName(beforeAttrs, afterAttrs, scope,
                                                      Tail(names))
         IN <<AttributeFailover(ResolvedInfo(beforeAttrs, scope, name),
                                ResolvedInfo(afterAttrs, scope, name), scope, name)>> \o rest

\* The inner loop of computeClusterAttributeChanges recording a name whose failover
\* version changed as it records one whose cluster changed.
RECURSIVE attributeChangesOfScope_WholeInfo(_, _, _, _)
attributeChangesOfScope_WholeInfo(beforeAttrs, afterAttrs, scope, names) ==
    IF names = <<>> THEN <<>>
    ELSE LET name == Head(names)
             rest == attributeChangesOfScope_WholeInfo(beforeAttrs, afterAttrs, scope,
                                                      Tail(names))
             beforeInfo == ResolvedInfo(beforeAttrs, scope, name)
             afterInfo == ResolvedInfo(afterAttrs, scope, name)
         IN IF beforeInfo # afterInfo
            THEN <<AttributeFailover(beforeInfo, afterInfo, scope, name)>> \o rest
            ELSE rest

\* The inner loop of computeClusterAttributeChanges recording only the names one side
\* lacks, the additions and removals.
RECURSIVE attributeChangesOfScope_OneSided(_, _, _, _)
attributeChangesOfScope_OneSided(beforeAttrs, afterAttrs, scope, names) ==
    IF names = <<>> THEN <<>>
    ELSE LET name == Head(names)
             rest == attributeChangesOfScope_OneSided(beforeAttrs, afterAttrs, scope,
                                                     Tail(names))
             beforeInfo == ResolvedInfo(beforeAttrs, scope, name)
             afterInfo == ResolvedInfo(afterAttrs, scope, name)
         IN IF /\ beforeInfo.ActiveClusterName # afterInfo.ActiveClusterName
               /\ ~(HasInfo(beforeAttrs, scope, name) /\ HasInfo(afterAttrs, scope, name))
            THEN <<AttributeFailover(beforeInfo, afterInfo, scope, name)>> \o rest
            ELSE rest

\* The inner loop of computeClusterAttributeChanges: the names of one scope.
RECURSIVE attributeChangesOfScope(_, _, _, _)
attributeChangesOfScope(beforeAttrs, afterAttrs, scope, names) ==
    IF names = <<>> THEN <<>>
    ELSE LET name == Head(names)
             rest == attributeChangesOfScope(beforeAttrs, afterAttrs, scope, Tail(names))
             beforeInfo == ResolvedInfo(beforeAttrs, scope, name)
             afterInfo == ResolvedInfo(afterAttrs, scope, name)
         IN IF beforeInfo.ActiveClusterName # afterInfo.ActiveClusterName
            THEN <<AttributeFailover(beforeInfo, afterInfo, scope, name)>> \o rest
            ELSE rest

\* The outer loop of computeClusterAttributeChanges: allScopes.
RECURSIVE attributeChangesOfScopes(_, _, _, _)
attributeChangesOfScopes(beforeAttrs, afterAttrs, scopes, ord) ==
    IF scopes = <<>> THEN <<>>
    ELSE LET scope == Head(scopes)
             allNames == NamesOf(beforeAttrs, scope) \cup NamesOf(afterAttrs, scope)
         IN attributeChangesOfScope(beforeAttrs, afterAttrs, scope,
                                    InOrder(allNames, ord.names[scope]))
            \o attributeChangesOfScopes(beforeAttrs, afterAttrs, Tail(scopes), ord)

\* computeClusterAttributeChanges ranging over the scopes both sides have.
computeClusterAttributeChanges_CommonScopes(beforeAttrs, afterAttrs, ord) ==
    LET allScopes == ScopesOf(beforeAttrs) \cap ScopesOf(afterAttrs)
    IN attributeChangesOfScopes(beforeAttrs, afterAttrs,
                                InOrder(allScopes, ord.scopes), ord)

\* computeClusterAttributeChanges ranging over the scopes of before, then over those of
\* after, a scope of both sides twice.
computeClusterAttributeChanges_ScopesTwice(beforeAttrs, afterAttrs, ord) ==
    attributeChangesOfScopes(beforeAttrs, afterAttrs,
                             InOrder(ScopesOf(beforeAttrs), ord.scopes) \o
                             InOrder(ScopesOf(afterAttrs), ord.scopes), ord)

computeClusterAttributeChanges(beforeAttrs, afterAttrs, ord) ==
    LET allScopes == ScopesOf(beforeAttrs) \cup ScopesOf(afterAttrs)
    IN attributeChangesOfScopes(beforeAttrs, afterAttrs,
                                InOrder(allScopes, ord.scopes), ord)

\* types.ClusterFailover of the default cluster
DefaultFailover(beforeCluster, afterCluster) ==
    [FromCluster |-> ActiveClusterInfo(beforeCluster, 0),
     ToCluster |-> ActiveClusterInfo(afterCluster, 0),
     ClusterAttribute |-> NIL,
     IsDefaultCluster |-> TRUE]

\* ComputeClusterFailovers comparing the default cluster only when both sides have a
\* replication configuration, as ComputeChangeSummary does.
ComputeClusterFailovers_BothConfigs(b, a, ord) ==
    LET beforeRC == b.ReplicationConfig
        afterRC == a.ReplicationConfig
        beforeAttrs == IF beforeRC # NIL THEN beforeRC.ActiveClusters ELSE NIL
        afterAttrs == IF afterRC # NIL THEN afterRC.ActiveClusters ELSE NIL
        defaults == IF /\ beforeRC # NIL
                       /\ afterRC # NIL
                       /\ beforeRC.ActiveClusterName # afterRC.ActiveClusterName
                    THEN <<DefaultFailover(beforeRC.ActiveClusterName,
                                           afterRC.ActiveClusterName)>>
                    ELSE NilSlice
    IN IF beforeRC = NIL /\ afterRC = NIL
       THEN NilSlice
       ELSE defaults \o computeClusterAttributeChanges(beforeAttrs, afterAttrs, ord)

\* ComputeClusterFailovers reporting nothing when either side has no replication
\* configuration.
ComputeClusterFailovers_EitherMissing(b, a, ord) ==
    LET beforeRC == b.ReplicationConfig
        afterRC == a.ReplicationConfig
    IN IF beforeRC = NIL \/ afterRC = NIL
       THEN NilSlice
       ELSE (IF beforeRC.ActiveClusterName # afterRC.ActiveClusterName
             THEN <<DefaultFailover(beforeRC.ActiveClusterName, afterRC.ActiveClusterName)>>
             ELSE NilSlice)
            \o computeClusterAttributeChanges(beforeRC.ActiveClusters,
                                              afterRC.ActiveClusters, ord)

\* ComputeClusterFailovers appending the record of the default cluster after those of
\* the attributes.
ComputeClusterFailovers_DefaultLast(b, a, ord) ==
    LET beforeRC == b.ReplicationConfig
        afterRC == a.ReplicationConfig
        beforeCluster == IF beforeRC # NIL THEN beforeRC.ActiveClusterName ELSE ""
        afterCluster == IF afterRC # NIL THEN afterRC.ActiveClusterName ELSE ""
        beforeAttrs == IF beforeRC # NIL THEN beforeRC.ActiveClusters ELSE NIL
        afterAttrs == IF afterRC # NIL THEN afterRC.ActiveClusters ELSE NIL
        defaults == IF beforeCluster # afterCluster
                    THEN <<DefaultFailover(beforeCluster, afterCluster)>>
                    ELSE NilSlice
    IN IF beforeRC = NIL /\ afterRC = NIL
       THEN NilSlice
       ELSE computeClusterAttributeChanges(beforeAttrs, afterAttrs, ord) \o defaults

ComputeClusterFailovers(b, a, ord) ==
    LET beforeRC == b.ReplicationConfig
        afterRC == a.ReplicationConfig
        beforeCluster == IF beforeRC # NIL THEN beforeRC.ActiveClusterName ELSE ""
        afterCluster == IF afterRC # NIL THEN afterRC.ActiveClusterName ELSE ""
        beforeAttrs == IF beforeRC # NIL THEN beforeRC.ActiveClusters ELSE NIL
        afterAttrs == IF afterRC # NIL THEN afterRC.ActiveClusters ELSE NIL
        defaults == IF beforeCluster # afterCluster
                    THEN <<DefaultFailover(beforeCluster, afterCluster)>>
                    ELSE NilSlice
    IN IF beforeRC = NIL /\ afterRC = NIL
       THEN NilSlice
       ELSE defaults \o computeClusterAttributeChanges(beforeAttrs, afterAttrs, ord)

\* persistence.DomainOperationTypeFailover and persistence.DomainOperationTypeUpdate
DomainOperationTypeFailover == "Failover"
DomainOperationTypeUpdate == "Update"

\* DetermineOperationType taking only a change of the default cluster for a failover.
DetermineOperationType_NameOnly(req) ==
    IF req.ActiveClusterName # NIL
    THEN DomainOperationTypeFailover
    ELSE DomainOperationTypeUpdate

DetermineOperationType(req) ==
    IF req.ActiveClusterName # NIL
    THEN DomainOperationTypeFailover
    ELSE IF req.ActiveClusters # NIL
    THEN DomainOperationTypeFailover
    ELSE DomainOperationTypeUpdate

\* The error of ComputeChangeSummary on a pair without change, were the empty summary
\* taken for a failure.
ComputeChangeSummaryError_OnNoChange(b, a) ==
    IF b.ReplicationConfig = a.ReplicationConfig
    THEN [error |-> "no changes"]
    ELSE NIL

\* The error ComputeChangeSummary returns beside the summary: its one return statement
\* has nil.
ComputeChangeSummaryError(b, a) == NIL

\* The error ComputeClusterFailovers returns beside the list: both return statements
\* have nil.
ComputeClusterFailoversError(b, a) ==
    IF b.ReplicationConfig = NIL /\ a.ReplicationConfig = NIL
    THEN NIL
    ELSE NIL

-----------------------------------------------------------------------------
(* encoding/json, as far as the program uses it: a text is one of these documents *)

JInvalid == [j |-> "invalid"]                 \* not well-formed JSON (the empty text too)
JNull == [j |-> "null"]
JBool(b) == [j |-> "bool", v |-> b]
JString(s) == [j |-> "string", v |-> s]
JNumber(n) == [j |-> "number", v |-> n]
JArray(items) == [j |-> "array", v |-> items]
JObject(members) == [j |-> "object", v |-> members]

\* The member of object doc under key, JNull when it has none: json.Unmarshal leaves
\* a field without member, and a field whose member is null, at its zero value.
Member(doc, key) == IF key \in DOMAIN doc.v THEN doc.v[key] ELSE JNull

IsOr(doc, kind) == doc.j = kind \/ doc.j = "null"

\* json.Marshal of a *ChangeSummary: cluster_attributes_changed is omitempty.
MarshalSummary(s) ==
    LET fields == [i \in 1..Len(s.ChangedFields) |-> JString(s.ChangedFields[i])]
        refs == [i \in 1..Len(s.ClusterAttributesChanged) |->
                    JObject([scope |-> JString(s.ClusterAttributesChanged[i].Scope),
                             name |-> JString(s.ClusterAttributesChanged[i].Name)])]
    IN IF Len(s.ClusterAttributesChanged) = 0
       THEN JObject([changed_fields |-> JArray(fields),
                     default_cluster_changed |-> JBool(s.DefaultClusterChanged)])
       ELSE JObject([changed_fields |-> JArray(fields),
                     default_cluster_changed |-> JBool(s.DefaultClusterChanged),
                     cluster_attributes_changed |-> JArray(refs)])

\* Whether json.Unmarshal accepts doc as a *ClusterAttributeRef: null gives the nil
\* pointer.
RefTyped(doc) ==
    \/ doc.j = "null"
    \/ /\ doc.j = "object"
       /\ IsOr(Member(doc, "scope"), "string")
       /\ IsOr(Member(doc, "name"), "string")

\* Whether json.Unmarshal accepts doc as a ChangeSummary.
SummaryTyped(doc) ==
    \/ doc.j = "null"
    \/ /\ doc.j = "object"
       /\ LET cf == Member(doc, "changed_fields")
              dcc == Member(doc, "default_cluster_changed")
              cac == Member(doc, "cluster_attributes_changed")
          IN /\ IsOr(cf, "array")
             /\ cf.j = "array" => \A i \in 1..Len(cf.v) : IsOr(cf.v[i], "string")
             /\ IsOr(dcc, "bool")
             /\ IsOr(cac, "array")
             /\ cac.j = "array" => \A i \in 1..Len(cac.v) : RefTyped(cac.v[i])

StringOf(doc) == IF doc.j = "string" THEN doc.v ELSE ""

\* json.Unmarshal([]byte(summaryJSON), &summary): [err, summary].
UnmarshalSummary(doc) ==
    IF ~SummaryTyped(doc)
    THEN [err |-> TRUE]
    ELSE IF doc.j = "null"
    THEN [err |-> FALSE,
          summary |-> [ChangedFields |-> NilSlice,
                       DefaultClusterChanged |-> FALSE,
                       ClusterAttributesChanged |-> NilSlice]]
    ELSE LET cf == Member(doc, "changed_fields")
             dcc == Member(doc, "default_cluster_changed")
             cac == Member(doc, "cluster_attributes_changed")
         IN [err |-> FALSE,
             summary |->
                [ChangedFields |->
                    IF cf.j = "array"
                    THEN [i \in 1..Len(cf.v) |-> StringOf(cf.v[i])]
                    ELSE NilSlice,
                 DefaultClusterChanged |-> IF dcc.j = "bool" THEN dcc.v ELSE FALSE,
                 ClusterAttributesChanged |->
                    IF cac.j = "array"
                    THEN [i \in 1..Len(cac.v) |->
                            IF cac.v[i].j = "null" THEN NIL
                            ELSE ClusterAttributeRef(StringOf(Member(cac.v[i], "scope")),
                                                     StringOf(Member(cac.v[i], "name")))]
                    ELSE NilSlice]]

-----------------------------------------------------------------------------
(* The list filter *)

\* matchesAttributeFilter asking that every requested attribute be a changed one.
matchesAttributeFilter_Every(changed, requested) ==
    IF Len(changed) = 0
    THEN FALSE
    ELSE \A r \in 1..Len(requested) :
            \/ requested[r] = NIL
            \/ \E c \in 1..Len(changed) :
                  /\ changed[c].Scope = requested[r].Scope
                  /\ changed[c].Name = requested[r].Name

\* matchesAttributeFilter: some requested attribute, nil ones skipped, is a changed one.
\* The entries of changed are dereferenced unchecked: the summaries the write path
\* persists hold no nil entry, and neither do the texts of ParsableTexts.
matchesAttributeFilter(changed, requested) ==
    IF Len(changed) = 0
    THEN FALSE
    ELSE \E r \in 1..Len(requested) :
            /\ requested[r] # NIL
            /\ \E c \in 1..Len(changed) :
                  /\ changed[c].Scope = requested[r].Scope
                  /\ changed[c].Name = requested[r].Name

\* shouldIncludeEvent leaving out an event whose summary does not parse.
shouldIncludeEvent_FailClosed(summaryJSON, f) ==
    LET parsed == UnmarshalSummary(summaryJSON)
    IN IF parsed.err
       THEN FALSE
       ELSE IF /\ f.DefaultActiveCluster # NIL
               /\ f.DefaultActiveCluster.value
               /\ ~parsed.summary.DefaultClusterChanged
            THEN FALSE
            ELSE IF /\ Len(f.Attributes) > 0
                    /\ ~matchesAttributeFilter(parsed.summary.ClusterAttributesChanged,
                                               f.Attributes)
                 THEN FALSE
                 ELSE TRUE

\* shouldIncludeEvent including an event a requested attribute of which changed, whatever
\* the default-only filter says.
shouldIncludeEvent_AttributesFirst(summaryJSON, f) ==
    LET parsed == UnmarshalSummary(summaryJSON)
    IN IF parsed.err
       THEN TRUE
       ELSE IF /\ Len(f.Attributes) > 0
               /\ matchesAttributeFilter(parsed.summary.ClusterAttributesChanged,
                                         f.Attributes)
            THEN TRUE
            ELSE IF /\ f.DefaultActiveCluster # NIL
                    /\ f.DefaultActiveCluster.value
                    /\ ~parsed.summary.DefaultClusterChanged
                 THEN FALSE
                 ELSE Len(f.Attributes) = 0

\* shouldIncludeEvent including an event that passes either kind of filter when both
\* are requested.
shouldIncludeEvent_EitherFilter(summaryJSON, f) ==
    LET parsed == UnmarshalSummary(summaryJSON)
    IN IF parsed.err
       THEN TRUE
       ELSE LET defaultOnly == f.DefaultActiveCluster # NIL /\ f.DefaultActiveCluster.value
                passesDefault == ~defaultOnly \/ parsed.summary.DefaultClusterChanged
                passesAttributes ==
                    \/ Len(f.Attributes) = 0
                    \/ matchesAttributeFilter(parsed.summary.ClusterAttributesChanged,
                                              f.Attributes)
            IN IF defaultOnly /\ Len(f.Attributes) > 0
               THEN passesDefault \/ passesAttributes
               ELSE passesDefault /\ passesAttributes

\* shouldIncludeEvent: whether the list returns the event with this persisted summary.
shouldIncludeEvent(summaryJSON, f) ==
    LET parsed == UnmarshalSummary(summaryJSON)
    IN IF parsed.err
       THEN TRUE
       ELSE IF /\ f.DefaultActiveCluster # NIL
               /\ f.DefaultActiveCluster.value
               /\ ~parsed.summary.DefaultClusterChanged
            THEN FALSE
            ELSE IF /\ Len(f.Attributes) > 0
                    /\ ~matchesAttributeFilter(parsed.summary.ClusterAttributesChanged,
                                               f.Attributes)
                 THEN FALSE
                 ELSE TRUE

-----------------------------------------------------------------------------
(* compression.go: the snapshot codec *)

\* A []byte of the program: no bytes, bytes snappy did not write, or the snappy
\* encoding of a JSON text.
EmptyBytes == [b |-> "empty"]
GarbageBytes == [b |-> "garbage"]
Snappy(doc) == [b |-> "snappy", doc |-> doc]

\* json.Marshal of a types.ActiveClusterInfo
MarshalInfo(info) ==
    JObject([ActiveClusterName |-> JString(info.ActiveClusterName),
             FailoverVersion |-> JNumber(info.FailoverVersion)])

\* json.Marshal of a map[string]types.ActiveClusterInfo: null for the nil map, else an
\* object of its entries.
MarshalClusterAttributes(m) ==
    IF m = NIL THEN JNull ELSE JObject([k \in DOMAIN m |-> MarshalInfo(m[k])])

\* json.Marshal of a types.ClusterAttributeScope
MarshalScope(sc) ==
    JObject([ClusterAttributes |-> MarshalClusterAttributes(sc.ClusterAttributes)])

\* json.Marshal of a map[string]types.ClusterAttributeScope
MarshalAttributeScopes(m) ==
    IF m = NIL THEN JNull ELSE JObject([k \in DOMAIN m |-> MarshalScope(m[k])])

\* json.Marshal of a *types.ActiveClusters
MarshalActiveClusters(ac) ==
    IF ac = NIL THEN JNull
    ELSE JObject([AttributeScopes |-> MarshalAttributeScopes(ac.AttributeScopes)])

\* json.Marshal of a []*persistence.ClusterReplicationConfig: null for the nil slice,
\* else an array with null for a nil element.
MarshalClusters(list) ==
    IF Len(list) = 0 THEN JNull
    ELSE JArray([i \in 1..Len(list) |->
                    IF list[i] = NIL THEN JNull
                    ELSE JObject([ClusterName |-> JString(list[i].ClusterName)])])

\* json.Marshal of a *persistence.DomainReplicationConfig
MarshalReplicationConfig(rc) ==
    IF rc = NIL THEN JNull
    ELSE JObject([ActiveClusterName |-> JString(rc.ActiveClusterName),
                  Clusters |-> MarshalClusters(rc.Clusters),
                  ActiveClusters |-> MarshalActiveClusters(rc.ActiveClusters)])

\* json.Marshal of a *persistence.DomainInfo
MarshalDomainInfo(info) ==
    IF info = NIL THEN JNull
    ELSE JObject([ID |-> JString(info.ID), Name |-> JString(info.Name)])

\* json.Marshal of a *persistence.DomainConfig
MarshalDomainConfig(config) ==
    IF config = NIL THEN JNull
    ELSE JObject([Retention |-> JNumber(config.Retention)])

\* json.Marshal(domain) of a *persistence.GetDomainResponse. The members carry the Go
\* field names; a member left out and a null member decode alike (see Member).
MarshalDomain(domain) ==
    JObject([Info |-> MarshalDomainInfo(domain.Info),
             Config |-> MarshalDomainConfig(domain.Config),
             ReplicationConfig |-> MarshalReplicationConfig(domain.ReplicationConfig)])

\* SerializeAndCompress: json.Marshal of a snapshot has no failing case, so the error
\* returned is nil and the result is the bytes.
SerializeAndCompress(domain) == Snappy(MarshalDomain(domain))

\* snappy.Decode(nil, compressed): [err, doc]. Empty input has no length header, and
\* Decode returns ErrCorrupt for it as for any bytes Encode did not write.
snappyDecode(compressed) ==
    IF compressed.b = "snappy"
    THEN [err |-> FALSE, doc |-> compressed.doc]
    ELSE [err |-> TRUE]

NumberOf(doc) == IF doc.j = "number" THEN doc.v ELSE 0

\* Whether json.Unmarshal accepts doc as a types.ActiveClusterInfo.
InfoTyped(doc) ==
    \/ doc.j = "null"
    \/ /\ doc.j = "object"
       /\ IsOr(Member(doc, "ActiveClusterName"), "string")
       /\ IsOr(Member(doc, "FailoverVersion"), "number")

\* Whether json.Unmarshal accepts doc as a map[string]types.ActiveClusterInfo.
ClusterAttributesTyped(doc) ==
    \/ doc.j = "null"
    \/ /\ doc.j = "object"
       /\ \A k \in DOMAIN doc.v : InfoTyped(doc.v[k])

ScopeTyped(doc) ==
    \/ doc.j = "null"
    \/ /\ doc.j = "object"
       /\ ClusterAttributesTyped(Member(doc, "ClusterAttributes"))

\* Whether json.Unmarshal accepts doc as a map[string]types.ClusterAttributeScope.
AttributeScopesTyped(doc) ==
    \/ doc.j = "null"
    \/ /\ doc.j = "object"
       /\ \A k \in DOMAIN doc.v : ScopeTyped(doc.v[k])

ActiveClustersTyped(doc) ==
    \/ doc.j = "null"
    \/ /\ doc.j = "object"
       /\ AttributeScopesTyped(Member(doc, "AttributeScopes"))

\* Whether json.Unmarshal accepts doc as a []*persistence.ClusterReplicationConfig.
ClustersTyped(doc) ==
    \/ doc.j = "null"
    \/ /\ doc.j = "array"
       /\ \A i \in 1..Len(doc.v) :
             \/ doc.v[i].j = "null"
             \/ /\ doc.v[i].j = "object"
                /\ IsOr(Member(doc.v[i], "ClusterName"), "string")

ReplicationConfigTyped(doc) ==
    \/ doc.j = "null"
    \/ /\ doc.j = "object"
       /\ IsOr(Member(doc, "ActiveClusterName"), "string")
       /\ ClustersTyped(Member(doc, "Clusters"))
       /\ ActiveClustersTyped(Member(doc, "ActiveClusters"))

DomainInfoTyped(doc) ==
    \/ doc.j = "null"
    \/ /\ doc.j = "object"
       /\ IsOr(Member(doc, "ID"), "string")
       /\ IsOr(Member(doc, "Name"), "string")

DomainConfigTyped(doc) ==
    \/ doc.j = "null"
    \/ /\ doc.j = "object"
       /\ IsOr(Member(doc, "Retention"), "number")

\* Whether json.Unmarshal accepts doc as a persistence.GetDomainResponse.
DomainTyped(doc) ==
    \/ doc.j = "null"
    \/ /\ doc.j = "object"
       /\ DomainInfoTyped(Member(doc, "Info"))
       /\ DomainConfigTyped(Member(doc, "Config"))
       /\ ReplicationConfigTyped(Member(doc, "ReplicationConfig"))

\* What json.Unmarshal stores for an accepted doc, level by level: null leaves the
\* zero value (nil for a pointer or a map, the zero struct for a struct).
UnmarshalInfo(doc) ==
    IF doc.j = "null" THEN ActiveClusterInfo("", 0)
    ELSE ActiveClusterInfo(StringOf(Member(doc, "ActiveClusterName")),
                           NumberOf(Member(doc, "FailoverVersion")))

UnmarshalClusterAttributes(doc) ==
    IF doc.j = "null" THEN NIL
    ELSE IF DOMAIN doc.v = {} THEN NIL
    ELSE [k \in DOMAIN doc.v |-> UnmarshalInfo(doc.v[k])]

UnmarshalScope(doc) ==
    IF doc.j = "null" THEN [ClusterAttributes |-> NIL]
    ELSE [ClusterAttributes |-> UnmarshalClusterAttributes(Member(doc, "ClusterAttributes"))]

UnmarshalAttributeScopes(doc) ==
    IF doc.j = "null" THEN NIL
    ELSE IF DOMAIN doc.v = {} THEN NIL
    ELSE [k \in DOMAIN doc.v |-> UnmarshalScope(doc.v[k])]

UnmarshalActiveClusters(doc) ==
    IF doc.j = "null" THEN NIL
    ELSE [AttributeScopes |-> UnmarshalAttributeScopes(Member(doc, "AttributeScopes"))]

UnmarshalClusters(doc) ==
    IF doc.j = "null" THEN NilSlice
    ELSE [i \in 1..Len(doc.v) |->
             IF doc.v[i].j = "null" THEN NIL
             ELSE ClusterReplicationConfig(StringOf(Member(doc.v[i], "ClusterName")))]

UnmarshalReplicationConfig(doc) ==
    IF doc.j = "null" THEN NIL
    ELSE [ActiveClusterName |-> StringOf(Member(doc, "ActiveClusterName")),
          Clusters |-> UnmarshalClusters(Member(doc, "Clusters")),
          ActiveClusters |-> UnmarshalActiveClusters(Member(doc, "ActiveClusters"))]

UnmarshalDomainInfo(doc) ==
    IF doc.j = "null" THEN NIL
    ELSE DomainInfo(StringOf(Member(doc, "ID")), StringOf(Member(doc, "Name")))

UnmarshalDomainConfig(doc) ==
    IF doc.j = "null" THEN NIL
    ELSE DomainConfig(NumberOf(Member(doc, "Retention")))

\* json.Unmarshal(jsonBytes, &domain) reading the replication configuration only.
UnmarshalDomain_ReplicationOnly(doc) ==
    IF ~DomainTyped(doc)
    THEN [err |-> TRUE]
    ELSE IF doc.j = "null"
    THEN [err |-> FALSE, domain |-> ZeroDomain]
    ELSE [err |-> FALSE,
          domain |-> [Info |-> NIL,
                      Config |-> NIL,
                      ReplicationConfig |->
                         UnmarshalReplicationConfig(Member(doc, "ReplicationConfig"))]]

\* json.Unmarshal(jsonBytes, &domain): [err, domain].
UnmarshalDomain(doc) ==
    IF ~DomainTyped(doc)
    THEN [err |-> TRUE]
    ELSE IF doc.j = "null"
    THEN [err |-> FALSE, domain |-> ZeroDomain]
    ELSE [err |-> FALSE,
          domain |-> [Info |-> UnmarshalDomainInfo(Member(doc, "Info")),
                      Config |-> UnmarshalDomainConfig(Member(doc, "Config")),
                      ReplicationConfig |->
                         UnmarshalReplicationConfig(Member(doc, "ReplicationConfig"))]]

\* DecompressAndDeserialize returning the zero snapshot for JSON it cannot read.
DecompressAndDeserialize_ZeroOnBadJSON(compressed) ==
    LET decoded == snappyDecode(compressed)
    IN IF decoded.err
       THEN [err |-> TRUE]
       ELSE IF UnmarshalDomain(decoded.doc).err
       THEN [err |-> FALSE, domain |-> ZeroDomain]
       ELSE UnmarshalDomain(decoded.doc)

\* DecompressAndDeserialize: [err, domain].
DecompressAndDeserialize(compressed) ==
    LET decoded == snappyDecode(compressed)
    IN IF decoded.err
       THEN [err |-> TRUE]
       ELSE UnmarshalDomain(decoded.doc)

-----------------------------------------------------------------------------
(* The get path *)

ErrShuttingDown == [error |-> "ErrShuttingDown"]
BadRequestError(message) == [error |-> "BadRequestError", Message |-> message]
InternalServiceError(message) == [error |-> "InternalServiceError", Message |-> message]

\* A *string or *int64 of a request: NIL or the value it points to.
Ptr(v) == [value |-> v]

\* &types.GetFailoverEventResponse{ClusterFailovers: list}; the empty response has the
\* nil list.
GetFailoverEventResponse(list) == [ClusterFailovers |-> list]

\* The request lacks one of domain_id, failover_event_id and created_time.
InvalidGetRequest(req) ==
    \/ req.DomainID = NIL
    \/ (req.DomainID # NIL /\ req.DomainID.value = "")
    \/ req.FailoverEventID = NIL
    \/ (req.FailoverEventID # NIL /\ req.FailoverEventID.value = "")
    \/ req.CreatedTime = NIL

\* The part of GetFailoverEvent after the entry is fetched, taking a state_after that
\* fails to decompress for the zero snapshot.
FailoversOfEntry_AfterUnchecked(entry, ord) ==
    LET b == DecompressAndDeserialize(entry.StateBefore)
        a == DecompressAndDeserialize(entry.StateAfter)
    IN IF b.err
       THEN [resp |-> NIL, err |-> InternalServiceError("Failed to decompress domain state")]
       ELSE IF a.err
       THEN [resp |-> GetFailoverEventResponse(
                         ComputeClusterFailovers(b.domain, ZeroDomain, ord)),
             err |-> NIL]
       ELSE [resp |-> GetFailoverEventResponse(ComputeClusterFailovers(b.domain, a.domain, ord)),
             err |-> NIL]

\* The part of GetFailoverEvent after the entry is fetched: decompress both states and
\* compute the failovers. An empty state is only logged, then decompressed as any other.
FailoversOfEntry(entry, ord) ==
    LET b == DecompressAndDeserialize(entry.StateBefore)
        a == DecompressAndDeserialize(entry.StateAfter)
    IN IF b.err
       THEN [resp |-> NIL, err |-> InternalServiceError("Failed to decompress domain state")]
       ELSE IF a.err
       THEN [resp |-> NIL, err |-> InternalServiceError("Failed to decompress domain state")]
       ELSE [resp |-> GetFailoverEventResponse(ComputeClusterFailovers(b.domain, a.domain, ord)),
             err |-> NIL]

\* GetFailoverEvent: [resp, err]. entryResp is what GetDomainAuditLogEntry returns; the
\* handler calls it only for a valid request while not shutting down.
GetFailoverEvent(shutdown, req, entryResp, ord) ==
    IF shutdown
    THEN [resp |-> NIL, err |-> ErrShuttingDown]
    ELSE IF InvalidGetRequest(req)
    THEN [resp |-> NIL,
          err |-> BadRequestError("domain_id, failover_event_id, and created_time are required")]
    ELSE IF entryResp.err # NIL
    THEN [resp |-> NIL, err |-> entryResp.err]
    ELSE IF entryResp.resp = NIL
    THEN [resp |-> GetFailoverEventResponse(NilSlice), err |-> NIL]
    ELSE IF entryResp.resp.Entry = NIL
    THEN [resp |-> GetFailoverEventResponse(NilSlice), err |-> NIL]
    ELSE FailoversOfEntry(entryResp.resp.Entry, ord)

-----------------------------------------------------------------------------
(* The list path *)

\* pageSize := 5
DefaultPageSize == 5

\* int64(1000000): the nanoseconds of a millisecond
NanosPerMilli == 1000000

\* entry.CreatedTime.UnixNano() / int64(1000000), the time being its Unix nanoseconds
\* (not negative here, where Go's division and \div agree).
UnixMillis(createdTime) == createdTime \div NanosPerMilli

\* time.Unix(0, *request.CreatedTime*int64(1000000))
TimeOfMillis(ms) == ms * NanosPerMilli

\* types.FailoverEvent as the list builds it
FailoverEvent(entry) ==
    [ID |-> Ptr(entry.EventID),
     CreatedTime |-> Ptr(UnixMillis(entry.CreatedTime)),
     FailoverType |-> Ptr("FORCE")]

\* The request lacks filters or a domain id in them.
InvalidListRequest(req) ==
    \/ req.Filters = NIL
    \/ (req.Filters # NIL /\ req.Filters.DomainID = NIL)
    \/ (req.Filters # NIL /\ req.Filters.DomainID # NIL /\ req.Filters.DomainID.value = "")

\* The page size asked of storage: the request's when it gives a positive one, else 5.
PageSizeOf(req) ==
    IF /\ req.Pagination # NIL
       /\ req.Pagination.PageSize # NIL
       /\ req.Pagination.PageSize.value > 0
    THEN req.Pagination.PageSize.value
    ELSE DefaultPageSize

\* The page token asked of storage: nil without pagination options.
NoPageToken == 0
PageTokenOf(req) ==
    IF req.Pagination # NIL THEN req.Pagination.NextPageToken ELSE NoPageToken

\* &persistence.ReadDomainAuditLogRequest{...} of a valid request
ReadDomainAuditLogRequest(req) ==
    [DomainID |-> req.Filters.DomainID.value,
     PageSize |-> PageSizeOf(req),
     NextPageToken |-> PageTokenOf(req)]

\* The loop of ListFailoverHistory keeping an entry whatever its operation type.
RECURSIVE eventsOfEntries_AnyOperation(_, _)
eventsOfEntries_AnyOperation(entries, f) ==
    IF entries = <<>> THEN <<>>
    ELSE LET entry == Head(entries)
             rest == eventsOfEntries_AnyOperation(Tail(entries), f)
         IN IF shouldIncludeEvent(entry.Comment, f)
            THEN <<FailoverEvent(entry)>> \o rest
            ELSE rest

\* The loop of ListFailoverHistory over readResp.Entries: the events of the failover
\* entries shouldIncludeEvent keeps.
RECURSIVE eventsOfEntries(_, _)
eventsOfEntries(entries, f) ==
    IF entries = <<>> THEN <<>>
    ELSE LET entry == Head(entries)
             rest == eventsOfEntries(Tail(entries), f)
         IN IF entry.OperationType # "Failover"
            THEN rest
            ELSE IF shouldIncludeEvent(entry.Comment, f)
                 THEN <<FailoverEvent(entry)>> \o rest
                 ELSE rest

\* ListFailoverHistory returning no page token when it returns no event.
ListFailoverHistory_TokenOfEvents(shutdown, req, read) ==
    IF shutdown
    THEN [resp |-> NIL, err |-> ErrShuttingDown]
    ELSE IF InvalidListRequest(req)
    THEN [resp |-> NIL, err |-> BadRequestError("domain_id is required in filters")]
    ELSE IF read.err # NIL
    THEN [resp |-> NIL, err |-> read.err]
    ELSE LET events == eventsOfEntries(read.resp.Entries, req.Filters)
         IN [resp |-> [FailoverEvents |-> events,
                       NextPageToken |-> IF Len(events) = 0 THEN NoPageToken
                                         ELSE read.resp.NextPageToken],
             err |-> NIL]

\* ListFailoverHistory: [resp, err]. read is what ReadDomainAuditLog returns; the handler
\* calls it only for a valid request while not shutting down.
ListFailoverHistory(shutdown, req, read) ==
    IF shutdown
    THEN [resp |-> NIL, err |-> ErrShuttingDown]
    ELSE IF InvalidListRequest(req)
    THEN [resp |-> NIL, err |-> BadRequestError("domain_id is required in filters")]
    ELSE IF read.err # NIL
    THEN [resp |-> NIL, err |-> read.err]
    ELSE [resp |-> [FailoverEvents |-> eventsOfEntries(read.resp.Entries, req.Filters),
                    NextPageToken |-> read.resp.NextPageToken],
          err |-> NIL]

\* &persistence.GetDomainAuditLogEntryRequest{...} of a valid request
GetDomainAuditLogEntryRequest(req) ==
    [DomainID |-> req.DomainID.value,
     EventID |-> req.FailoverEventID.value,
     CreatedTime |-> TimeOfMillis(req.CreatedTime.value)]

-----------------------------------------------------------------------------
(* The comparison of one mutation's snapshots *)

InitCompare ==
    /\ QueueIdle
    /\ PureIdle
    /\ ClassifyIdle
    /\ compareErr = NONE
    /\ \E m \in Mutations : before = m[1] /\ after = m[2]
    /\ pc = "start"
    /\ summary = NONE
    /\ failovers = NONE
    /\ comment = NONE
    /\ filters = NONE
    /\ included = NONE
    /\ shuttingDown = NONE
    /\ request = NONE
    /\ storage = NONE
    /\ getResult = NONE
    /\ CodecIdle
    /\ ListIdle

\* The write path: the summary of the mutation, persisted as the entry's comment.
ComputeChangeSummaryCall ==
    /\ pc = "start"
    /\ summary' \in {ComputeChangeSummary(before, after, ord) : ord \in IterationOrders}
    /\ comment' = MarshalSummary(summary')
    /\ compareErr' = ComputeChangeSummaryError(before, after)
    /\ pc' = "summarized"
    /\ UNCHANGED <<queueVars, pureVars, classifyVars, before, after, failovers, filters, included, shuttingDown, request, storage,
                   getResult,
                   codecVars, listVars>>

\* The read path: the failovers of the mutation.
ComputeClusterFailoversCall ==
    /\ pc = "summarized"
    /\ failovers' \in {ComputeClusterFailovers(before, after, ord) : ord \in IterationOrders}
    /\ compareErr' = ComputeClusterFailoversError(before, after)
    /\ pc' = "diffed"
    /\ UNCHANGED <<queueVars, pureVars, classifyVars, before, after, summary, comment, filters, included, shuttingDown, request, storage,
                   getResult,
                   codecVars, listVars>>

\* The cluster attributes a snapshot holds, as types.ClusterAttribute values.
AttributesIn(s) ==
    LET rc == s.ReplicationConfig
    IN IF rc = NIL THEN {}
       ELSE IF rc.ActiveClusters = NIL THEN {}
       ELSE IF rc.ActiveClusters.AttributeScopes = NIL THEN {}
       ELSE LET m == rc.ActiveClusters.AttributeScopes
            IN UNION {IF m[sc].ClusterAttributes = NIL THEN {}
                      ELSE {[Scope |-> sc, Name |-> n] : n \in DOMAIN m[sc].ClusterAttributes}
                      : sc \in DOMAIN m}

\* A list request for one attribute of the mutation meets the entry of the mutation.
FilterByAttribute ==
    /\ pc = "diffed"
    /\ \E a \in AttributesIn(before) \cup AttributesIn(after) :
          /\ filters' = [DefaultActiveCluster |-> NIL, Attributes |-> <<a>>]
          /\ included' = shouldIncludeEvent(comment, filters')
    /\ pc' = "filtered"
    /\ UNCHANGED <<queueVars, pureVars, classifyVars, compareErr, before, after, summary, failovers, comment, shuttingDown, request, storage,
                   getResult,
                   codecVars, listVars>>

Next ==
    \/ ComputeChangeSummaryCall
    \/ ComputeClusterFailoversCall
    \/ FilterByAttribute

Spec == InitCompare /\ [][Next]_vars

-----------------------------------------------------------------------------
(* A list request meets a persisted summary *)

\* The most refs a persisted summary holds.
MaxChanged == 2

\* The most attribute filters of a list request.
MaxFilterAttributes == 2

\* The slices of at most n elements of S.
SlicesOf(S, n) == UNION {[1..k -> S] : k \in 0..n}

ClusterAttributeRefs == {ClusterAttributeRef(sc, n) : sc \in ScopeNames, n \in AttrNames}

\* The summaries the write path persists: ChangedFields as ComputeChangeSummary fills it.
PersistedSummaries ==
    {[ChangedFields |->
         (IF d THEN <<"ActiveClusterName">> ELSE <<>>) \o
         (IF Len(refs) > 0 THEN <<"ActiveClusters">> ELSE <<>>),
      DefaultClusterChanged |-> d,
      ClusterAttributesChanged |-> refs] :
        d \in BOOLEAN, refs \in SlicesOf(ClusterAttributeRefs, MaxChanged)}

\* Texts json.Unmarshal accepts as a ChangeSummary: the persisted summaries, null, and
\* objects lacking members.
ParsableTexts ==
    {MarshalSummary(s) : s \in PersistedSummaries} \cup
    {JNull,
     JObject([default_cluster_changed |-> JBool(TRUE)]),
     JObject([changed_fields |-> JNull,
              cluster_attributes_changed |->
                  JArray(<<JObject([scope |-> JString("region")])>>)])}

\* Texts json.Unmarshal rejects: not JSON at all (the empty text, free text), JSON of
\* another kind than an object, and objects with a member of the wrong type.
UnparsableTexts ==
    {JInvalid, JString("manual failover"), JNumber(1), JBool(TRUE), JArray(<<>>),
     JObject([changed_fields |-> JArray(<<>>),
              default_cluster_changed |-> JString("true")]),
     JObject([changed_fields |-> JArray(<<JNumber(1)>>),
              default_cluster_changed |-> JBool(FALSE)]),
     JObject([changed_fields |-> JArray(<<JString("ActiveClusters")>>),
              default_cluster_changed |-> JBool(FALSE),
              cluster_attributes_changed |-> JString("region")]),
     JObject([changed_fields |-> JArray(<<JString("ActiveClusters")>>),
              default_cluster_changed |-> JBool(FALSE),
              cluster_attributes_changed |->
                  JArray(<<JObject([scope |-> JString("region"), name |-> JNumber(1)])>>)])}

\* types.ClusterAttribute values of a request, nil pointers among them.
RequestedAttributes == {NIL} \cup ClusterAttributeRefs

\* *types.ListFailoverHistoryRequestFilters, as far as shouldIncludeEvent reads them.
FilterSets ==
    [DefaultActiveCluster : {NIL, [value |-> TRUE], [value |-> FALSE]},
     Attributes : SlicesOf(RequestedAttributes, MaxFilterAttributes)]

InitFilter ==
    /\ QueueIdle
    /\ PureIdle
    /\ ClassifyIdle
    /\ compareErr = NONE
    /\ comment \in ParsableTexts \cup UnparsableTexts
    /\ filters \in FilterSets
    /\ pc = "list"
    /\ included = NONE
    /\ before = NONE
    /\ after = NONE
    /\ summary = NONE
    /\ failovers = NONE
    /\ shuttingDown = NONE
    /\ request = NONE
    /\ storage = NONE
    /\ getResult = NONE
    /\ CodecIdle
    /\ ListIdle

\* ListFailoverHistory decides on one entry of the page.
ShouldIncludeEventCall ==
    /\ pc = "list"
    /\ included' = shouldIncludeEvent(comment, filters)
    /\ pc' = "listed"
    /\ UNCHANGED <<queueVars, pureVars, classifyVars, compareErr, before, after, summary, failovers, comment, filters, shuttingDown,
                   request, storage, getResult,
                   codecVars, listVars>>

NextFilter == ShouldIncludeEventCall

SpecFilter == InitFilter /\ [][NextFilter]_vars

-----------------------------------------------------------------------------
(* A get request meets a stored entry *)

\* Payloads DecompressAndDeserialize fails on: no bytes, bytes that are not snappy
\* output, and snappy output of a text that is not a snapshot.
CorruptPayloads ==
    {EmptyBytes, GarbageBytes, Snappy(JInvalid), Snappy(JString("domain")),
     Snappy(JObject([ReplicationConfig |-> JString("cluster1")])),
     Snappy(JObject([ReplicationConfig |->
                        JObject([ActiveClusterName |-> JNumber(1)])]))}

\* The audit log entries of the mutations, as the write path stores them.
StoredEntries ==
    {[StateBefore |-> SerializeAndCompress(m[1]),
      StateAfter |-> SerializeAndCompress(m[2])] : m \in Mutations}

\* The snapshots stored next to a corrupt payload.
SnapshotsBesideCorrupt ==
    {s \in Snapshots : AttributeCount(s) <= 1}

\* Entries with a payload that does not decode, the other one being any payload.
CorruptEntries ==
    LET payloads == CorruptPayloads \cup
                    {SerializeAndCompress(s) : s \in SnapshotsBesideCorrupt}
    IN {[StateBefore |-> p[1], StateAfter |-> p[2]] :
           p \in (CorruptPayloads \X payloads) \cup (payloads \X CorruptPayloads)}

\* The errors GetDomainAuditLogEntry returns.
StorageErrors ==
    {[error |-> "TimeoutError"], InternalServiceError("persistence failure")}

\* What GetDomainAuditLogEntry returns: an error, a nil response, a response without
\* entry, or a response with an entry.
StorageResults ==
    {[resp |-> NIL, err |-> e] : e \in StorageErrors} \cup
    {[resp |-> NIL, err |-> NIL], [resp |-> [Entry |-> NIL], err |-> NIL]} \cup
    {[resp |-> [Entry |-> e], err |-> NIL] : e \in StoredEntries \cup CorruptEntries}

\* *types.GetFailoverEventRequest
GetRequests ==
    [DomainID : {NIL, Ptr(""), Ptr("domain-1")},
     FailoverEventID : {NIL, Ptr(""), Ptr("event-1")},
     CreatedTime : {NIL, Ptr(1000)}]

InitGet ==
    /\ QueueIdle
    /\ PureIdle
    /\ ClassifyIdle
    /\ compareErr = NONE
    /\ request \in GetRequests
    /\ shuttingDown \in BOOLEAN
    /\ pc = "get"
    /\ storage = NONE
    /\ getResult = NONE
    /\ CodecIdle
    /\ ListIdle
    /\ before = NONE
    /\ after = NONE
    /\ summary = NONE
    /\ failovers = NONE
    /\ comment = NONE
    /\ filters = NONE
    /\ included = NONE

\* GetFailoverEvent, from the request to the response. The storage collaborator is
\* asked only by a handler that is not shutting down, for a valid request.
GetFailoverEventCall ==
    /\ pc = "get"
    /\ IF shuttingDown \/ InvalidGetRequest(request)
       THEN /\ storage' = NONE
            /\ getResult' = GetFailoverEvent(shuttingDown, request, NONE,
                                             CHOOSE ord \in IterationOrders : TRUE)
       ELSE \E entryResp \in StorageResults :
               /\ storage' = entryResp
               /\ getResult' \in {GetFailoverEvent(shuttingDown, request, entryResp, ord) :
                                     ord \in IterationOrders}
    /\ pc' = "got"
    /\ UNCHANGED <<queueVars, pureVars, classifyVars, compareErr, before, after, summary, failovers, comment, filters, included,
                   shuttingDown, request,
                   codecVars, listVars>>

NextGet == GetFailoverEventCall

SpecGet == InitGet /\ [][NextGet]_vars

-----------------------------------------------------------------------------
(* The codec on its own *)

\* The most entries of the cluster list of a snapshot handed to the codec.
MaxClusters == 2

\* persistence.GetDomainResponse values handed to SerializeAndCompress: with or without
\* info, config and replication configuration, a cluster list with nil entries among
\* them, and active clusters of at most MaxAttributes attributes.
CodecSnapshots ==
    [Info : {NIL, DomainInfo("test-domain-id", "test-domain")},
     Config : {NIL, DomainConfig(30)},
     ReplicationConfig :
        {NIL} \cup
        [ActiveClusterName : ClusterNames,
         Clusters : SlicesOf({NIL, ClusterReplicationConfig("cluster1"),
                              ClusterReplicationConfig("cluster2")}, MaxClusters),
         ActiveClusters : {NIL} \cup ActiveClustersSet]]

\* Bytes no SerializeAndCompress call wrote that still decode: snappy output of null, of
\* an object without members the snapshot has, of an object with members it has not.
ForeignPayloads ==
    {Snappy(JNull),
     Snappy(JObject([Info |-> JNull])),
     Snappy(JObject([Info |-> JObject([ID |-> JString("test-domain-id")]),
                     Config |-> JObject([Retention |-> JNull])])),
     Snappy(JObject([ReplicationConfig |-> JObject([Clusters |-> JArray(<<>>)]),
                     Unknown |-> JNumber(1)]))}

InitCodec ==
    /\ QueueIdle
    /\ PureIdle
    /\ ClassifyIdle
    /\ compareErr = NONE
    /\ \/ /\ pc = "encode"
          /\ original \in CodecSnapshots
          /\ payload = NONE
       \/ /\ pc = "decode"
          /\ original = NONE
          /\ payload \in CorruptPayloads \cup ForeignPayloads
    /\ restored = NONE
    /\ before = NONE
    /\ after = NONE
    /\ summary = NONE
    /\ failovers = NONE
    /\ comment = NONE
    /\ filters = NONE
    /\ included = NONE
    /\ shuttingDown = NONE
    /\ request = NONE
    /\ storage = NONE
    /\ getResult = NONE
    /\ ListIdle

\* The write path compresses a snapshot.
SerializeAndCompressCall ==
    /\ pc = "encode"
    /\ payload' = SerializeAndCompress(original)
    /\ pc' = "encoded"
    /\ UNCHANGED <<queueVars, pureVars, classifyVars, compareErr, before, after, summary, failovers, comment, filters, included,
                   shuttingDown, request, storage, getResult, original, restored, listVars>>

\* The read path decompresses bytes: those just written, or those found in storage.
DecompressAndDeserializeCall ==
    /\ pc \in {"encoded", "decode"}
    /\ restored' = DecompressAndDeserialize(payload)
    /\ pc' = "decoded"
    /\ UNCHANGED <<queueVars, pureVars, classifyVars, compareErr, before, after, summary, failovers, comment, filters, included,
                   shuttingDown, request, storage, getResult, original, payload, listVars>>

NextCodec ==
    \/ SerializeAndCompressCall
    \/ DecompressAndDeserializeCall

SpecCodec == InitCodec /\ [][NextCodec]_vars
-----------------------------------------------------------------------------
(* A list request over an audit log, then a get request for a listed event *)

\* The most entries of the audit log of the domain.
MaxLogEntries == 3

\* The event ids of the entries, by their place in the log.
EventIDs == <<"event-1", "event-2", "event-3", "event-4", "event-5", "event-6">>

\* A snapshot with this default cluster and these attribute scopes.
SnapshotOf(name, scopes) ==
    [Info |-> DomainInfo("test-domain", ""), Config |-> NIL,
     ReplicationConfig |->
        [ActiveClusterName |-> name, Clusters |-> NilSlice,
         ActiveClusters |-> IF scopes = NIL THEN NIL ELSE [AttributeScopes |-> scopes]]]

\* The attribute scopes with region/us-east-1 active in this cluster.
RegionScopes(name, version) ==
    [sc \in {"region"} |->
        [ClusterAttributes |-> [n \in {"us-east-1"} |-> ActiveClusterInfo(name, version)]]]

\* A failover of the default cluster, a failover of one attribute, and a request that
\* left the domain as it was.
DefaultMutation == <<SnapshotOf("cluster1", NIL), SnapshotOf("cluster2", NIL)>>
AttributeMutation ==
    <<SnapshotOf("cluster1", RegionScopes("cluster1", 100)),
      SnapshotOf("cluster1", RegionScopes("cluster2", 101))>>
NoMutation == <<SnapshotOf("cluster1", NIL), SnapshotOf("cluster1", NIL)>>

\* The summary the write path persists for a mutation.
CommentOf(m) ==
    MarshalSummary(ComputeChangeSummary(m[1], m[2], CHOOSE ord \in IterationOrders : TRUE))

\* What an entry holds besides its place in the log: its operation type, the part of
\* its created time below the millisecond, its summary and its snapshots.
EntryKind(operationType, nanos, text, m) ==
    [OperationType |-> operationType, Nanos |-> nanos, Comment |-> text,
     StateBefore |-> SerializeAndCompress(m[1]),
     StateAfter |-> SerializeAndCompress(m[2])]

\* Failovers of the default cluster and of an attribute, an update with the summary of
\* a failover, a failover that changed nothing, and a failover with a free-text comment.
EntryKinds ==
    {EntryKind("Failover", 0, CommentOf(DefaultMutation), DefaultMutation),
     EntryKind("Failover", 500000, CommentOf(AttributeMutation), AttributeMutation),
     EntryKind("Update", 0, CommentOf(DefaultMutation), DefaultMutation),
     EntryKind("Failover", 0, CommentOf(NoMutation), NoMutation),
     EntryKind("Failover", 250000, JString("manual failover"), DefaultMutation)}

\* persistence.DomainAuditLogEntry at place i of the log: the entries of a domain have
\* distinct event ids and created times.
AuditLogEntry(i, kind) ==
    [DomainID |-> "domain-1", EventID |-> EventIDs[i],
     CreatedTime |-> i * NanosPerMilli + kind.Nanos,
     OperationType |-> kind.OperationType, Comment |-> kind.Comment,
     StateBefore |-> kind.StateBefore, StateAfter |-> kind.StateAfter]

\* The audit logs of the domain.
AuditLogs ==
    UNION {{[i \in 1..k |-> AuditLogEntry(i, kinds[i])] : kinds \in [1..k -> EntryKinds]} :
              k \in 0..MaxLogEntries}

\* ReadAuditLog(domainID, pageSize, pageToken) -> (entries, nextPageToken) of the
\* storage collaborator: the entries of the domain after those the token stands for, at
\* most pageSize of them, and the token of the rest, nil when there is none.
ReadDomainAuditLog(log, req) ==
    LET entries == SelectSeq(log, LAMBDA e : e.DomainID = req.DomainID)
        first == req.NextPageToken + 1
        last == IF req.NextPageToken + req.PageSize < Len(entries)
                THEN req.NextPageToken + req.PageSize
                ELSE Len(entries)
    IN [resp |-> [Entries |-> SubSeq(entries, first, last),
                  NextPageToken |-> IF last < Len(entries) THEN last ELSE NoPageToken],
        err |-> NIL]

\* GetAuditLogEntry(domainID, eventID, createdTime) -> entry|absent of the storage
\* collaborator: the entry of the domain with this event id and created time.
GetDomainAuditLogEntry(log, req) ==
    LET found == {i \in 1..Len(log) : /\ log[i].DomainID = req.DomainID
                                      /\ log[i].EventID = req.EventID
                                      /\ log[i].CreatedTime = req.CreatedTime}
    IN IF found = {}
       THEN [resp |-> [Entry |-> NIL], err |-> NIL]
       ELSE [resp |-> [Entry |-> log[CHOOSE i \in found : TRUE]], err |-> NIL]

\* *types.ListFailoverHistoryRequestFilters
ListFilters ==
    [DomainID : {NIL, Ptr(""), Ptr("domain-1")},
     DefaultActiveCluster : {NIL, Ptr(TRUE)},
     Attributes : {NilSlice, <<ClusterAttributeRef("region", "us-east-1")>>}]

\* *types.PaginationOptions
PaginationOptions ==
    [PageSize : {NIL, Ptr(0), Ptr(-1), Ptr(1), Ptr(2)},
     NextPageToken : {NoPageToken, 1}]

\* *types.ListFailoverHistoryRequest
ListRequests ==
    [Filters : {NIL} \cup ListFilters, Pagination : {NIL} \cup PaginationOptions]

InitList ==
    /\ QueueIdle
    /\ PureIdle
    /\ ClassifyIdle
    /\ compareErr = NONE
    /\ auditLog \in AuditLogs
    /\ listRequest \in ListRequests
    /\ shuttingDown \in BOOLEAN
    /\ pc = "list"
    /\ readRequest = NONE
    /\ readResp = NONE
    /\ listResult = NONE
    /\ request = NONE
    /\ storage = NONE
    /\ getResult = NONE
    /\ CodecIdle
    /\ before = NONE
    /\ after = NONE
    /\ summary = NONE
    /\ failovers = NONE
    /\ comment = NONE
    /\ filters = NONE
    /\ included = NONE

\* ListFailoverHistory, from the request to the response. The storage collaborator is
\* asked only by a handler that is not shutting down, for a valid request; it answers
\* with a page of the log or with an error.
ListFailoverHistoryCall ==
    /\ pc = "list"
    /\ IF shuttingDown \/ InvalidListRequest(listRequest)
       THEN /\ readRequest' = NONE
            /\ readResp' = NONE
            /\ listResult' = ListFailoverHistory(shuttingDown, listRequest, NONE)
       ELSE /\ readRequest' = ReadDomainAuditLogRequest(listRequest)
            /\ readResp' \in {ReadDomainAuditLog(auditLog, readRequest')} \cup
                             {[resp |-> NIL, err |-> e] : e \in StorageErrors}
            /\ listResult' = ListFailoverHistory(shuttingDown, listRequest, readResp')
    /\ pc' = "list-done"
    /\ UNCHANGED <<queueVars, pureVars, classifyVars, compareErr, before, after, summary, failovers, comment, filters, included,
                   shuttingDown, request, storage, getResult,
                   codecVars, auditLog, listRequest>>

\* GetFailoverEvent for an event of the list, with the id and the created time the list
\* gave, from the request to the response.
GetListedEventCall ==
    /\ pc = "list-done"
    /\ listResult.err = NIL
    /\ \E i \in 1..Len(listResult.resp.FailoverEvents) :
          LET event == listResult.resp.FailoverEvents[i]
          IN /\ request' = [DomainID |-> listRequest.Filters.DomainID,
                            FailoverEventID |-> event.ID,
                            CreatedTime |-> event.CreatedTime]
             /\ storage' = GetDomainAuditLogEntry(auditLog,
                                                  GetDomainAuditLogEntryRequest(request'))
             /\ getResult' \in {GetFailoverEvent(shuttingDown, request', storage', ord) :
                                   ord \in IterationOrders}
    /\ pc' = "get-done"
    /\ UNCHANGED <<queueVars, pureVars, classifyVars, compareErr, before, after, summary, failovers, comment, filters, included,
                   shuttingDown, codecVars, listVars>>

NextList ==
    \/ ListFailoverHistoryCall
    \/ GetListedEventCall

SpecList == InitList /\ [][NextList]_vars

-----------------------------------------------------------------------------
(* An update request is classified *)

\* *types.UpdateDomainRequest, as far as DetermineOperationType reads it.
UpdateDomainRequests ==
    [ActiveClusterName : {NIL} \cup {Ptr(n) : n \in ClusterNames},
     ActiveClusters : {NIL} \cup ActiveClustersSet]

\* The snapshot of the domain the request is for.
CurrentSnapshots == {s \in Snapshots : AttributeCount(s) <= 1}

InitClassify ==
    /\ QueueIdle
    /\ PureIdle
    /\ updateRequest \in UpdateDomainRequests
    /\ before \in CurrentSnapshots
    /\ operation = NONE
    /\ pc = "classify"
    /\ compareErr = NONE
    /\ after = NONE
    /\ summary = NONE
    /\ failovers = NONE
    /\ comment = NONE
    /\ filters = NONE
    /\ included = NONE
    /\ shuttingDown = NONE
    /\ request = NONE
    /\ storage = NONE
    /\ getResult = NONE
    /\ CodecIdle
    /\ ListIdle

\* The write path classifies the request before it stores the entry.
DetermineOperationTypeCall ==
    /\ pc = "classify"
    /\ operation' = DetermineOperationType(updateRequest)
    /\ pc' = "classified"
    /\ UNCHANGED <<queueVars, pureVars, updateRequest, compareErr, before, after, summary, failovers, comment,
                   filters, included, shuttingDown, request, storage, getResult,
                   codecVars, listVars>>

NextClassify == DetermineOperationTypeCall

SpecClassify == InitClassify /\ [][NextClassify]_vars

-----------------------------------------------------------------------------
(* Concurrent calls of the pure functions on the same arguments *)

\* The number of goroutines calling at the same time.
MaxCalls == 2

Goroutines == 1..MaxCalls

\* An object on the heap: the goroutine that allocated it, its Go type and its value.
\* A pointer is NIL or the address of an object.
Cell(g, type, value) == [owner |-> g, type |-> type, value |-> value]
PointerTo(address) == [addr |-> address]

\* &T{...}: the heap with the new object, and the pointer to it.
Allocate(h, g, type, value) ==
    [heap |-> Append(h, Cell(g, type, value)), ref |-> PointerTo(Len(h) + 1)]

\* The ClusterFailover a pointer leads to, its pointers followed.
DerefClusterFailover(h, ref) ==
    LET c == h[ref.addr].value
    IN [FromCluster |-> h[c.FromCluster.addr].value,
        ToCluster |-> h[c.ToCluster.addr].value,
        ClusterAttribute |-> IF c.ClusterAttribute = NIL THEN NIL
                             ELSE h[c.ClusterAttribute.addr].value,
        IsDefaultCluster |-> h[c.IsDefaultCluster.addr].value]

\* &types.ClusterFailover{...} handing out the record of an earlier call when the heap
\* holds one with the same content.
NewClusterFailover_Interned(h, g, r) ==
    LET same == {a \in 1..Len(h) : /\ h[a].type = "ClusterFailover"
                                   /\ DerefClusterFailover(h, PointerTo(a)) = r}
    IN IF same # {}
       THEN [heap |-> h, ref |-> PointerTo(CHOOSE a \in same : TRUE)]
       ELSE LET from == Allocate(h, g, "ActiveClusterInfo", r.FromCluster)
                to == Allocate(from.heap, g, "ActiveClusterInfo", r.ToCluster)
                attr == IF r.ClusterAttribute = NIL
                        THEN [heap |-> to.heap, ref |-> NIL]
                        ELSE Allocate(to.heap, g, "ClusterAttribute", r.ClusterAttribute)
                isDefault == Allocate(attr.heap, g, "bool", r.IsDefaultCluster)
            IN Allocate(isDefault.heap, g, "ClusterFailover",
                        [FromCluster |-> from.ref, ToCluster |-> to.ref,
                         ClusterAttribute |-> attr.ref,
                         IsDefaultCluster |-> isDefault.ref])

\* &types.ClusterFailover{FromCluster: &types.ActiveClusterInfo{...}, ToCluster:
\* &types.ActiveClusterInfo{...}, ClusterAttribute: &types.ClusterAttribute{...},
\* IsDefaultCluster: &isDefault}: every pointer of the record is to a new object.
NewClusterFailover(h, g, r) ==
    LET from == Allocate(h, g, "ActiveClusterInfo", r.FromCluster)
        to == Allocate(from.heap, g, "ActiveClusterInfo", r.ToCluster)
        attr == IF r.ClusterAttribute = NIL
                THEN [heap |-> to.heap, ref |-> NIL]
                ELSE Allocate(to.heap, g, "ClusterAttribute", r.ClusterAttribute)
        isDefault == Allocate(attr.heap, g, "bool", r.IsDefaultCluster)
    IN Allocate(isDefault.heap, g, "ClusterFailover",
                [FromCluster |-> from.ref, ToCluster |-> to.ref,
                 ClusterAttribute |-> attr.ref,
                 IsDefaultCluster |-> isDefault.ref])

\* failovers = append(failovers, &types.ClusterFailover{...}) for each record in turn:
\* the heap with the new objects, and the pointers appended.
RECURSIVE NewClusterFailovers(_, _, _)
NewClusterFailovers(h, g, records) ==
    IF records = <<>> THEN [heap |-> h, refs |-> <<>>]
    ELSE LET first == NewClusterFailover(h, g, Head(records))
             rest == NewClusterFailovers(first.heap, g, Tail(records))
         IN [heap |-> rest.heap, refs |-> <<first.ref>> \o rest.refs]

\* changed = append(changed, &ClusterAttributeRef{...}) for each ref in turn.
RECURSIVE NewClusterAttributeRefs(_, _, _)
NewClusterAttributeRefs(h, g, changed) ==
    IF changed = <<>> THEN [heap |-> h, refs |-> <<>>]
    ELSE LET first == Allocate(h, g, "ClusterAttributeRef", Head(changed))
             rest == NewClusterAttributeRefs(first.heap, g, Tail(changed))
         IN [heap |-> rest.heap, refs |-> <<first.ref>> \o rest.refs]

\* The ChangeSummary a pointer leads to, its pointers followed.
DerefChangeSummary(h, ref) ==
    LET c == h[ref.addr].value
    IN [ChangedFields |-> c.ChangedFields,
        DefaultClusterChanged |-> c.DefaultClusterChanged,
        ClusterAttributesChanged |->
            [i \in 1..Len(c.ClusterAttributesChanged) |->
                h[c.ClusterAttributesChanged[i].addr].value]]

\* The functions called.
PureFunctions == {"ComputeChangeSummary", "ComputeClusterFailovers", "shouldIncludeEvent"}

\* A failover of the default cluster and of an attribute at once.
MixedMutation ==
    <<SnapshotOf("cluster1", RegionScopes("cluster1", 100)),
      SnapshotOf("cluster2", RegionScopes("cluster2", 101))>>

\* A mutation of a domain without replication configuration.
UnconfiguredMutation == <<ZeroDomain, ZeroDomain>>

\* What the calls are handed: the two snapshots of a mutation, the summary text of an
\* entry and the filters of a list request. All calls are handed the same objects.
PureArguments ==
    {[before |-> m[1], after |-> m[2], summaryJSON |-> text, filters |-> f] :
        m \in {DefaultMutation, AttributeMutation, MixedMutation, NoMutation,
               UnconfiguredMutation},
        text \in {CommentOf(MixedMutation), CommentOf(NoMutation), JString("manual failover")},
        f \in {[DefaultActiveCluster |-> Ptr(TRUE), Attributes |-> NilSlice],
               [DefaultActiveCluster |-> NIL,
                Attributes |-> <<ClusterAttributeRef("region", "us-east-1")>>]}}

InitPure ==
    /\ QueueIdle
    /\ args \in PureArguments
    /\ heap = <<>>
    /\ calls \in [Goroutines ->
                    {[fn |-> f, pc |-> "start", local |-> NONE, result |-> NONE] :
                        f \in PureFunctions}]
    /\ pc = "concurrent"
    /\ ClassifyIdle
    /\ compareErr = NONE
    /\ before = NONE
    /\ after = NONE
    /\ summary = NONE
    /\ failovers = NONE
    /\ comment = NONE
    /\ filters = NONE
    /\ included = NONE
    /\ shuttingDown = NONE
    /\ request = NONE
    /\ storage = NONE
    /\ getResult = NONE
    /\ CodecIdle
    /\ ListIdle

\* ComputeClusterFailovers up to the default cluster: return at once without replication
\* configuration on both sides, else append the default record when the names differ.
ComputeClusterFailoversDefault(g) ==
    /\ calls[g].fn = "ComputeClusterFailovers"
    /\ calls[g].pc = "start"
    /\ LET beforeRC == args.before.ReplicationConfig
           afterRC == args.after.ReplicationConfig
           beforeCluster == IF beforeRC # NIL THEN beforeRC.ActiveClusterName ELSE ""
           afterCluster == IF afterRC # NIL THEN afterRC.ActiveClusterName ELSE ""
       IN IF beforeRC = NIL /\ afterRC = NIL
          THEN /\ calls' = [calls EXCEPT ![g].pc = "returned",
                                         ![g].result = [refs |-> NilSlice]]
               /\ heap' = heap
          ELSE IF beforeCluster # afterCluster
          THEN LET new == NewClusterFailover(heap, g,
                                             DefaultFailover(beforeCluster, afterCluster))
               IN /\ heap' = new.heap
                  /\ calls' = [calls EXCEPT ![g].pc = "attributes",
                                            ![g].local = [refs |-> <<new.ref>>]]
          ELSE /\ calls' = [calls EXCEPT ![g].pc = "attributes",
                                         ![g].local = [refs |-> NilSlice]]
               /\ heap' = heap
    /\ UNCHANGED <<queueVars, args, classifyVars, compareErr, before, after, pc, summary, failovers,
                   comment, filters, included, shuttingDown, request, storage, getResult,
                   codecVars, listVars>>

\* ComputeClusterFailovers from the cluster attributes to its return.
ComputeClusterFailoversAttributes(g) ==
    /\ calls[g].fn = "ComputeClusterFailovers"
    /\ calls[g].pc = "attributes"
    /\ LET beforeRC == args.before.ReplicationConfig
           afterRC == args.after.ReplicationConfig
           beforeAttrs == IF beforeRC # NIL THEN beforeRC.ActiveClusters ELSE NIL
           afterAttrs == IF afterRC # NIL THEN afterRC.ActiveClusters ELSE NIL
       IN \E ord \in IterationOrders :
             LET new == NewClusterFailovers(
                            heap, g,
                            computeClusterAttributeChanges(beforeAttrs, afterAttrs, ord))
             IN /\ heap' = new.heap
                /\ calls' = [calls EXCEPT
                                ![g].pc = "returned",
                                ![g].result = [refs |-> calls[g].local.refs \o new.refs]]
    /\ UNCHANGED <<queueVars, args, classifyVars, compareErr, before, after, pc, summary, failovers,
                   comment, filters, included, shuttingDown, request, storage, getResult,
                   codecVars, listVars>>

\* ComputeChangeSummary up to the default cluster: the new summary, returned at once
\* when a side has no replication configuration.
ComputeChangeSummaryDefault(g) ==
    /\ calls[g].fn = "ComputeChangeSummary"
    /\ calls[g].pc = "start"
    /\ LET beforeRC == args.before.ReplicationConfig
           afterRC == args.after.ReplicationConfig
           both == beforeRC # NIL /\ afterRC # NIL
           changed == both /\ beforeRC.ActiveClusterName # afterRC.ActiveClusterName
           new == Allocate(heap, g, "ChangeSummary",
                           [ChangedFields |-> IF changed THEN <<"ActiveClusterName">>
                                              ELSE <<>>,
                            DefaultClusterChanged |-> changed,
                            ClusterAttributesChanged |-> <<>>])
       IN /\ heap' = new.heap
          /\ calls' = IF both
                      THEN [calls EXCEPT ![g].pc = "attributes",
                                         ![g].local = [ref |-> new.ref]]
                      ELSE [calls EXCEPT ![g].pc = "returned",
                                         ![g].result = [ref |-> new.ref]]
    /\ UNCHANGED <<queueVars, args, classifyVars, compareErr, before, after, pc, summary, failovers,
                   comment, filters, included, shuttingDown, request, storage, getResult,
                   codecVars, listVars>>

\* ComputeChangeSummary from the cluster attributes to its return.
ComputeChangeSummaryAttributes(g) ==
    /\ calls[g].fn = "ComputeChangeSummary"
    /\ calls[g].pc = "attributes"
    /\ \E ord \in IterationOrders :
          LET new == NewClusterAttributeRefs(
                         heap, g,
                         compareClusterAttributes(
                             args.before.ReplicationConfig.ActiveClusters,
                             args.after.ReplicationConfig.ActiveClusters, ord))
              at == calls[g].local.ref.addr
          IN /\ heap' = IF Len(new.refs) > 0
                        THEN [new.heap EXCEPT
                                 ![at].value.ChangedFields = Append(@, "ActiveClusters"),
                                 ![at].value.ClusterAttributesChanged = new.refs]
                        ELSE new.heap
             /\ calls' = [calls EXCEPT ![g].pc = "returned",
                                       ![g].result = [ref |-> calls[g].local.ref]]
    /\ UNCHANGED <<queueVars, args, classifyVars, compareErr, before, after, pc, summary, failovers,
                   comment, filters, included, shuttingDown, request, storage, getResult,
                   codecVars, listVars>>

\* shouldIncludeEvent: its summary is a local variable, its result a bool.
ShouldIncludeEventAlone(g) ==
    /\ calls[g].fn = "shouldIncludeEvent"
    /\ calls[g].pc = "start"
    /\ calls' = [calls EXCEPT
                    ![g].pc = "returned",
                    ![g].result = [bool |-> shouldIncludeEvent(args.summaryJSON,
                                                               args.filters)]]
    /\ UNCHANGED <<queueVars, args, heap, classifyVars, compareErr, before, after, pc, summary,
                   failovers, comment, filters, included, shuttingDown, request, storage,
                   getResult, codecVars, listVars>>

NextPure ==
    \E g \in Goroutines :
        \/ ComputeClusterFailoversDefault(g)
        \/ ComputeClusterFailoversAttributes(g)
        \/ ComputeChangeSummaryDefault(g)
        \/ ComputeChangeSummaryAttributes(g)
        \/ ShouldIncludeEventAlone(g)

SpecPure == InitPure /\ [][NextPure]_vars

-----------------------------------------------------------------------------
(* The concurrent priority queue: goroutines call its methods at the same time *)

\* The number of goroutines calling the queue, and the most items it holds.
MaxCallers == 3
MaxItems == 2

Callers == 1..MaxCallers
Items == 1..MaxItems

\* The methods of concurrentPriorityQueueImpl.
QueueMethods == {"Peek", "Add", "Remove", "IsEmpty", "Len"}

\* The lock a method takes, were Remove to take the read lock.
LockOf_RemoveShared(method) ==
    IF method = "Add" THEN "Lock" ELSE "RLock"

\* The lock a method takes: pq.Lock() in Add and Remove, pq.RLock() in the others.
LockOf(method) ==
    IF method \in {"Add", "Remove"} THEN "Lock" ELSE "RLock"

\* priorityQueue.Add of the sequential queue: the item goes before the items it is
\* less than.
AddItem(q, item) ==
    LET k == Cardinality({i \in 1..Len(q) : q[i] <= item})
    IN SubSeq(q, 1, k) \o <<item>> \o SubSeq(q, k + 1, Len(q))

\* The call a method makes on the sequential queue under its lock: the queue after it
\* and whether it returned an error, as Peek and Remove do on an empty queue.
CallUnderlying(q, op) ==
    IF op.method = "Add" THEN [queue |-> AddItem(q, op.item), err |-> FALSE]
    ELSE IF op.method = "Remove"
    THEN IF Len(q) = 0 THEN [queue |-> q, err |-> TRUE]
         ELSE [queue |-> Tail(q), err |-> FALSE]
    ELSE IF op.method = "Peek" THEN [queue |-> q, err |-> Len(q) = 0]
    ELSE [queue |-> q, err |-> FALSE]

\* The calls a goroutine may make.
QueueCalls ==
    {[method |-> "Add", item |-> i] : i \in Items} \cup
    {[method |-> m] : m \in QueueMethods \ {"Add"}}

\* The Add calls under way.
AddsUnderWay == {g \in Callers : callers[g].pc # "idle" /\ callers[g].op.method = "Add"}

\* The goroutines blocked in RLock behind a writer.
BlockedReaders == {g \in Callers : callers[g].pc = "blocked"}

InitQueue ==
    /\ rwmutex = [writer |-> {}, readers |-> {}]
    /\ priorityQueue = <<>>
    /\ callers = [g \in Callers |-> [pc |-> "idle", op |-> [method |-> "Len"],
                                     err |-> FALSE]]
    /\ pc = "queue"
    /\ PureIdle
    /\ ClassifyIdle
    /\ compareErr = NONE
    /\ before = NONE
    /\ after = NONE
    /\ summary = NONE
    /\ failovers = NONE
    /\ comment = NONE
    /\ filters = NONE
    /\ included = NONE
    /\ shuttingDown = NONE
    /\ request = NONE
    /\ storage = NONE
    /\ getResult = NONE
    /\ CodecIdle
    /\ ListIdle

\* A goroutine calls a method: it is at the method's pq.Lock() or pq.RLock(). The queue
\* with the Adds under way holds at most MaxItems items.
CallMethod(g) ==
    /\ callers[g].pc = "idle"
    /\ \E op \in QueueCalls :
          /\ op.method = "Add" => Len(priorityQueue) + Cardinality(AddsUnderWay) < MaxItems
          /\ callers' = [callers EXCEPT ![g] = [pc |-> IF LockOf(op.method) = "Lock"
                                                       THEN "lock" ELSE "rlock",
                                                op |-> op, err |-> FALSE]]
    /\ UNCHANGED <<rwmutex, priorityQueue, pureVars, classifyVars, compareErr, before,
                   after, pc, summary, failovers, comment, filters, included,
                   shuttingDown, request, storage, getResult, codecVars, listVars>>

\* pq.RLock(): the reader enters unless a writer has announced itself, and then blocks
\* until that writer unlocks.
RLock(g) ==
    /\ callers[g].pc = "rlock"
    /\ IF rwmutex.writer = {}
       THEN /\ rwmutex' = [rwmutex EXCEPT !.readers = @ \cup {g}]
            /\ callers' = [callers EXCEPT ![g].pc = "running"]
       ELSE /\ rwmutex' = rwmutex
            /\ callers' = [callers EXCEPT ![g].pc = "blocked"]
    /\ UNCHANGED <<priorityQueue, pureVars, classifyVars, compareErr, before,
                   after, pc, summary, failovers, comment, filters, included,
                   shuttingDown, request, storage, getResult, codecVars, listVars>>

\* pq.Lock(), first half: the writer takes the writers' mutex and announces itself, which
\* keeps new readers out.
Lock(g) ==
    /\ callers[g].pc = "lock"
    /\ rwmutex.writer = {}
    /\ rwmutex' = [rwmutex EXCEPT !.writer = {g}]
    /\ callers' = [callers EXCEPT ![g].pc = "drain"]
    /\ UNCHANGED <<priorityQueue, pureVars, classifyVars, compareErr, before,
                   after, pc, summary, failovers, comment, filters, included,
                   shuttingDown, request, storage, getResult, codecVars, listVars>>

\* pq.Lock(), second half: the writer enters once the readers it found have left.
LockAcquired(g) ==
    /\ callers[g].pc = "drain"
    /\ rwmutex.readers = {}
    /\ callers' = [callers EXCEPT ![g].pc = "running"]
    /\ UNCHANGED <<rwmutex, priorityQueue, pureVars, classifyVars, compareErr, before,
                   after, pc, summary, failovers, comment, filters, included,
                   shuttingDown, request, storage, getResult, codecVars, listVars>>

\* return pq.priorityQueue.Peek() and the like: the call on the sequential queue, under
\* the lock; the deferred unlock is still to run.
RunUnderlying(g) ==
    /\ callers[g].pc = "running"
    /\ LET done == CallUnderlying(priorityQueue, callers[g].op)
       IN /\ priorityQueue' = done.queue
          /\ callers' = [callers EXCEPT ![g].pc = "unlock", ![g].err = done.err]
    /\ UNCHANGED <<rwmutex, pureVars, classifyVars, compareErr, before,
                   after, pc, summary, failovers, comment, filters, included,
                   shuttingDown, request, storage, getResult, codecVars, listVars>>

\* defer pq.RUnlock(): the reader leaves and the method returns.
RUnlock(g) ==
    /\ callers[g].pc = "unlock"
    /\ g \in rwmutex.readers
    /\ rwmutex' = [rwmutex EXCEPT !.readers = @ \ {g}]
    /\ callers' = [callers EXCEPT ![g].pc = "idle"]
    /\ UNCHANGED <<priorityQueue, pureVars, classifyVars, compareErr, before,
                   after, pc, summary, failovers, comment, filters, included,
                   shuttingDown, request, storage, getResult, codecVars, listVars>>

\* defer pq.Unlock(): the writer leaves, the readers blocked behind it enter, and the
\* method returns.
Unlock(g) ==
    /\ callers[g].pc = "unlock"
    /\ g \in rwmutex.writer
    /\ rwmutex' = [writer |-> {}, readers |-> BlockedReaders]
    /\ callers' = [h \in Callers |->
                      IF h = g THEN [callers[h] EXCEPT !.pc = "idle"]
                      ELSE IF h \in BlockedReaders
                      THEN [callers[h] EXCEPT !.pc = "running"]
                      ELSE callers[h]]
    /\ UNCHANGED <<priorityQueue, pureVars, classifyVars, compareErr, before,
                   after, pc, summary, failovers, comment, filters, included,
                   shuttingDown, request, storage, getResult, codecVars, listVars>>

NextQueue ==
    \E g \in Callers :
        \/ CallMethod(g)
        \/ RLock(g)
        \/ Lock(g)
        \/ LockAcquired(g)
        \/ RunUnderlying(g)
        \/ RUnlock(g)
        \/ Unlock(g)

\* A goroutine that has called a method goes on running; one waiting for the writers'
\* mutex gets it at some time when it is free again and again.
FairQueue ==
    \A g \in Callers :
        /\ WF_vars(RLock(g))
        /\ SF_vars(Lock(g))
        /\ WF_vars(LockAcquired(g))
        /\ WF_vars(RunUnderlying(g))
        /\ WF_vars(RUnlock(g))
        /\ WF_vars(Unlock(g))

SpecQueue == InitQueue /\ [][NextQueue]_vars /\ FairQueue
-----------------------------------------------------------------------------
(* What the snapshots of the mutation say, read off them directly *)

\* The default active-cluster name of a snapshot, empty without replication configuration.
DefaultClusterOf(s) ==
    IF s.ReplicationConfig = NIL THEN "" ELSE s.ReplicationConfig.ActiveClusterName

\* Whether the snapshot holds attribute (scope, name).
AttributePresent(s, scope, name) == [Scope |-> scope, Name |-> name] \in AttributesIn(s)

\* The owner of attribute (scope, name): empty name and version 0 when it is absent.
OwnerOf(s, scope, name) ==
    IF AttributePresent(s, scope, name)
    THEN s.ReplicationConfig.ActiveClusters.AttributeScopes[scope].ClusterAttributes[name]
    ELSE [ActiveClusterName |-> "", FailoverVersion |-> 0]

\* The positions of the records of attribute (scope, name) in a list of failovers.
AttributeRecords(list, scope, name) ==
    {i \in 1..Len(list) :
        /\ ~list[i].IsDefaultCluster
        /\ list[i].ClusterAttribute = [Scope |-> scope, Name |-> name]}

\* The positions of the default-cluster records in a list of failovers.
DefaultRecords(list) == {i \in 1..Len(list) : list[i].IsDefaultCluster}

\* The refs of a summary, as a set.
RefsOf(s) == {s.ClusterAttributesChanged[i] : i \in 1..Len(s.ClusterAttributesChanged)}

Summarized == pc \in {"summarized", "diffed", "filtered"}
Diffed == pc \in {"diffed", "filtered"}

-----------------------------------------------------------------------------
(* Claims *)

\* C1: for every scope and attribute name of the union of both sides, the failovers
\* hold a record of that attribute with IsDefaultCluster = false exactly when the
\* owning-cluster names resolved on the two sides (empty when absent) differ, and such a
\* record carries the before and after name and version, empty and 0 for an absent side.
C1_AttributeCompleteness ==
    Diffed =>
        \A scope \in ScopeNames, name \in AttrNames :
            LET recs == AttributeRecords(failovers, scope, name)
                from == OwnerOf(before, scope, name)
                to == OwnerOf(after, scope, name)
            IN /\ (recs # {}) <=> (from.ActiveClusterName # to.ActiveClusterName)
               /\ \A i \in recs :
                     /\ failovers[i].FromCluster = from
                     /\ failovers[i].ToCluster = to

\* An attribute failed over between two clusters, and another one was added or removed.
C1_Witness ==
    /\ Diffed
    /\ \E i \in 1..Len(failovers) :
          /\ ~failovers[i].IsDefaultCluster
          /\ failovers[i].FromCluster = [ActiveClusterName |-> "cluster1", FailoverVersion |-> 100]
          /\ failovers[i].ToCluster = [ActiveClusterName |-> "cluster2", FailoverVersion |-> 101]

\* C2: the failovers hold a record with IsDefaultCluster = true exactly when the default
\* active-cluster names differ, a side without replication configuration counting as the
\* empty name; the record carries the two names with version 0 and no ClusterAttribute.
C2_DefaultTransition ==
    Diffed =>
        /\ (DefaultRecords(failovers) # {})
              <=> (DefaultClusterOf(before) # DefaultClusterOf(after))
        /\ \A i \in DefaultRecords(failovers) :
              /\ failovers[i].FromCluster =
                    [ActiveClusterName |-> DefaultClusterOf(before), FailoverVersion |-> 0]
              /\ failovers[i].ToCluster =
                    [ActiveClusterName |-> DefaultClusterOf(after), FailoverVersion |-> 0]
              /\ failovers[i].ClusterAttribute = NIL

\* A replication configuration appeared with the mutation, and the default record says so.
C2_Witness ==
    /\ Diffed
    /\ before.ReplicationConfig = NIL
    /\ \E i \in DefaultRecords(failovers) :
          failovers[i].ToCluster.ActiveClusterName = "cluster1"

\* C3, as claimed: for every pair of snapshots, the summary never has
\* DefaultClusterChanged = false when the default active-cluster names differ.
C3_AsClaimed ==
    Summarized =>
        (DefaultClusterOf(before) # DefaultClusterOf(after) => summary.DefaultClusterChanged)

\* C3, amended: for every pair of snapshots that both have a replication configuration,
\* the summary never has DefaultClusterChanged = false when the default active-cluster
\* names differ.
C3_DefaultClusterChanged ==
    Summarized =>
        (/\ before.ReplicationConfig # NIL
         /\ after.ReplicationConfig # NIL
         /\ DefaultClusterOf(before) # DefaultClusterOf(after)
         => summary.DefaultClusterChanged)

\* Both sides have a replication configuration, the names differ and the flag is set.
C3_Witness ==
    /\ Summarized
    /\ before.ReplicationConfig # NIL
    /\ after.ReplicationConfig # NIL
    /\ DefaultClusterOf(before) # DefaultClusterOf(after)
    /\ summary.DefaultClusterChanged

\* C4: ClusterAttributesChanged holds, once each, exactly the (scope, name) pairs whose
\* scope and name are present on both sides with differing owning-cluster names.
C4_AttributeRefs ==
    Summarized =>
        /\ RefsOf(summary) =
              {a \in [Scope : ScopeNames, Name : AttrNames] :
                  /\ AttributePresent(before, a.Scope, a.Name)
                  /\ AttributePresent(after, a.Scope, a.Name)
                  /\ OwnerOf(before, a.Scope, a.Name).ActiveClusterName
                        # OwnerOf(after, a.Scope, a.Name).ActiveClusterName}
        /\ Cardinality(RefsOf(summary)) = Len(summary.ClusterAttributesChanged)

\* An attribute present on both sides changed owner and is the one ref of the summary.
C4_Witness ==
    /\ Summarized
    /\ Len(summary.ClusterAttributesChanged) = 1
    /\ AttributePresent(before, summary.ClusterAttributesChanged[1].Scope,
                        summary.ClusterAttributesChanged[1].Name)

\* Whether exactly one side of the mutation holds the attribute.
OneSided(a) ==
    AttributePresent(before, a.Scope, a.Name) # AttributePresent(after, a.Scope, a.Name)

\* C5, as claimed: when an attribute exists on only one side of the mutation, the
\* failovers hold a record of it, the summary has no ref for it, and the list filter on
\* that attribute excludes the event.
C5_AsClaimed ==
    pc = "filtered" =>
        LET a == filters.Attributes[1]
        IN OneSided(a) =>
              /\ AttributeRecords(failovers, a.Scope, a.Name) # {}
              /\ a \notin RefsOf(summary)
              /\ included = FALSE

\* C5, amended: when an attribute exists on only one side of the mutation, with a
\* non-empty owning-cluster name there, the failovers hold a record of it, the summary
\* has no ref for it, and the list filter on that attribute excludes the event.
C5_Asymmetry ==
    pc = "filtered" =>
        LET a == filters.Attributes[1]
        IN (/\ OneSided(a)
            /\ OwnerOf(before, a.Scope, a.Name).ActiveClusterName
                  # OwnerOf(after, a.Scope, a.Name).ActiveClusterName)
           =>
              /\ AttributeRecords(failovers, a.Scope, a.Name) # {}
              /\ a \notin RefsOf(summary)
              /\ included = FALSE

\* An attribute was added to a scope both sides have: the get path reports it, the list
\* filter on it leaves the event out.
C5_Witness ==
    /\ pc = "filtered"
    /\ ~AttributePresent(before, filters.Attributes[1].Scope, filters.Attributes[1].Name)
    /\ AttributePresent(after, filters.Attributes[1].Scope, filters.Attributes[1].Name)
    /\ \E n \in AttrNames : AttributePresent(before, filters.Attributes[1].Scope, n)
    /\ AttributeRecords(failovers, filters.Attributes[1].Scope,
                        filters.Attributes[1].Name) # {}
    /\ included = FALSE

-----------------------------------------------------------------------------
(* Claims on the list filter *)

Listed == pc = "listed"

\* The default-cluster-only filter is requested: set, and true.
DefaultOnlyRequested == filters.DefaultActiveCluster = [value |-> TRUE]

\* DefaultClusterChanged as a parsable text gives it.
FlagOf(text) ==
    /\ text.j = "object"
    /\ Member(text, "default_cluster_changed") = JBool(TRUE)

\* The (scope, name) pairs a parsable text lists as changed.
ChangedOf(text) ==
    IF text.j # "object" THEN {}
    ELSE LET cac == Member(text, "cluster_attributes_changed")
         IN IF cac.j # "array" THEN {}
            ELSE {[Scope |-> StringOf(Member(cac.v[i], "scope")),
                   Name |-> StringOf(Member(cac.v[i], "name"))] : i \in 1..Len(cac.v)}

\* The (scope, name) pairs the request asks for.
RequestedOf(f) ==
    {f.Attributes[i] : i \in {k \in 1..Len(f.Attributes) : f.Attributes[k] # NIL}}

\* C6: shouldIncludeEvent returns true for every summary text that cannot be parsed as a
\* ChangeSummary, whatever filters are requested.
C6_FailOpen ==
    (Listed /\ comment \in UnparsableTexts) => included = TRUE

\* An unparsable text is included although both kinds of filter are requested.
C6_Witness ==
    /\ Listed
    /\ comment \in UnparsableTexts
    /\ comment # JInvalid
    /\ DefaultOnlyRequested
    /\ RequestedOf(filters) # {}
    /\ included = TRUE

\* C7: for every parsable summary with DefaultClusterChanged = false, shouldIncludeEvent
\* returns false whenever the default-cluster-only filter is set and true, whatever the
\* attribute filters and the changed attributes of the summary.
C7_DefaultOnly ==
    (Listed /\ comment \in ParsableTexts /\ ~FlagOf(comment) /\ DefaultOnlyRequested)
        => included = FALSE

\* The default cluster did not change and the event is left out, although a requested
\* attribute is among the changed ones.
C7_Witness ==
    /\ Listed
    /\ comment \in ParsableTexts
    /\ ~FlagOf(comment)
    /\ DefaultOnlyRequested
    /\ RequestedOf(filters) \cap ChangedOf(comment) # {}
    /\ included = FALSE

-----------------------------------------------------------------------------
(* Claims on the get path *)

Got == pc = "got"

\* The storage collaborator was asked and returned an entry.
EntryFetched ==
    /\ Got
    /\ storage # NONE
    /\ storage.err = NIL
    /\ storage.resp # NIL
    /\ storage.resp.Entry # NIL

\* The storage collaborator was asked and returned no entry.
NoEntry ==
    /\ Got
    /\ storage # NONE
    /\ storage.err = NIL
    /\ (storage.resp = NIL \/ storage.resp.Entry = NIL)

\* The entry's before or after payload is missing.
PayloadMissing ==
    /\ EntryFetched
    /\ (storage.resp.Entry.StateBefore = EmptyBytes \/ storage.resp.Entry.StateAfter = EmptyBytes)

\* The entry's before or after payload does not decode.
PayloadCorrupt ==
    /\ EntryFetched
    /\ \/ storage.resp.Entry.StateBefore \in CorruptPayloads
       \/ storage.resp.Entry.StateAfter \in CorruptPayloads

EmptyResponse == getResult = [resp |-> GetFailoverEventResponse(NilSlice), err |-> NIL]

\* C9, as claimed: GetFailoverEvent returns an empty response and no error when the
\* storage collaborator returns no entry, and also when the fetched entry's before or
\* after payload is missing (empty bytes).
C9_AsClaimed ==
    (NoEntry \/ PayloadMissing) => EmptyResponse

\* C10: when decoding the before or the after snapshot of the fetched entry fails,
\* GetFailoverEvent returns an internal service error and no response, so no transition
\* list computed from a snapshot that failed to decode; and an error of the storage
\* collaborator is returned to the caller as it is.
C10_CorruptData ==
    /\ PayloadCorrupt =>
          /\ getResult.resp = NIL
          /\ getResult.err # NIL
          /\ getResult.err.error = "InternalServiceError"
    /\ (Got /\ storage # NONE /\ storage.err # NIL) =>
          getResult = [resp |-> NIL, err |-> storage.err]

\* The before snapshot decodes, with a named default cluster, the after payload is
\* snappy output of a text that is no snapshot, and the caller gets the internal error.
C10_Witness ==
    /\ EntryFetched
    /\ storage.resp.Entry.StateBefore \notin CorruptPayloads
    /\ DecompressAndDeserialize(storage.resp.Entry.StateBefore).domain.ReplicationConfig # NIL
    /\ storage.resp.Entry.StateAfter = Snappy(JString("domain"))
    /\ getResult.resp = NIL
    /\ getResult.err = InternalServiceError("Failed to decompress domain state")

-----------------------------------------------------------------------------
(* Claims on the codec *)

Decoded == pc = "decoded"

\* C11: for every snapshot s, DecompressAndDeserialize(SerializeAndCompress(s)) succeeds
\* and yields a snapshot equal to s field by field: info, config, default active
\* cluster, cluster list and the scope -> attribute -> ActiveClusterInfo mapping.
C11_RoundTrip ==
    (Decoded /\ original # NONE) => restored = [err |-> FALSE, domain |-> original]

\* A snapshot with info, retention, two clusters and two attributes of differing
\* versions in one scope came back as it was.
C11_Witness ==
    /\ Decoded
    /\ original # NONE
    /\ original.Info # NIL
    /\ original.Config # NIL
    /\ original.ReplicationConfig # NIL
    /\ original.ReplicationConfig.ActiveClusterName = "cluster2"
    /\ original.ReplicationConfig.Clusters =
          <<ClusterReplicationConfig("cluster1"), ClusterReplicationConfig("cluster2")>>
    /\ AttributeCount(original) = 2
    /\ OwnerOf(original, "region", "us-east-1") = ActiveClusterInfo("cluster1", 100)
    /\ OwnerOf(original, "region", "us-west-1") = ActiveClusterInfo("cluster2", 101)
    /\ ~restored.err
    /\ restored.domain = original

\* C12: DecompressAndDeserialize returns an error and no snapshot when the input is not
\* snappy output, and also when it is snappy output of bytes that are not JSON or not
\* JSON a snapshot can be read from.
C12_DecodeFailure ==
    (Decoded /\ payload \in CorruptPayloads) => restored = [err |-> TRUE]

\* Snappy output of an object whose replication configuration is a string gave an error.
C12_Witness ==
    /\ Decoded
    /\ payload = Snappy(JObject([ReplicationConfig |-> JString("cluster1")]))
    /\ restored = [err |-> TRUE]

-----------------------------------------------------------------------------
(* Claims on the differ and the summary, continued *)

\* The (scope, name) pairs whose owning-cluster names, empty when absent, differ.
ChangedAttributes ==
    {a \in AttributesIn(before) \cup AttributesIn(after) :
        OwnerOf(before, a.Scope, a.Name).ActiveClusterName
            # OwnerOf(after, a.Scope, a.Name).ActiveClusterName}

\* Whether the default active-cluster names differ, empty without configuration.
DefaultChanged == DefaultClusterOf(before) # DefaultClusterOf(after)

\* C13: the failovers are exactly (1 if the default cluster names differ, else 0) + (the
\* number of (scope, name) pairs of the union whose resolved cluster names differ)
\* records, with at most one default record and at most one record per (scope, name).
C13_RecordCount ==
    Diffed =>
        /\ Len(failovers) =
              (IF DefaultChanged THEN 1 ELSE 0) + Cardinality(ChangedAttributes)
        /\ Cardinality(DefaultRecords(failovers)) <= 1
        /\ \A sc \in ScopeNames, n \in AttrNames :
              Cardinality(AttributeRecords(failovers, sc, n)) <= 1

\* The default cluster and one attribute of a scope both sides have changed: two records.
C13_Witness ==
    /\ Diffed
    /\ DefaultChanged
    /\ before.ReplicationConfig # NIL
    /\ after.ReplicationConfig # NIL
    /\ Cardinality(ChangedAttributes) = 1
    /\ \E a \in ChangedAttributes :
          AttributePresent(before, a.Scope, a.Name) /\ AttributePresent(after, a.Scope, a.Name)
    /\ Len(failovers) = 2

\* The empty summary.
EmptySummary ==
    [ChangedFields |-> <<>>, DefaultClusterChanged |-> FALSE, ClusterAttributesChanged |-> <<>>]

\* C14: ComputeChangeSummary(s, s) is the empty summary for every snapshot s.
C14_SummaryOfSame ==
    (Summarized /\ before = after) => summary = EmptySummary

\* A snapshot with two attributes compared with itself.
C14_Witness ==
    /\ Summarized
    /\ before = after
    /\ AttributeCount(before) = 2
    /\ summary = EmptySummary

\* C15: ComputeClusterFailovers(s, s) is the empty list for every snapshot s.
C15_FailoversOfSame ==
    (Diffed /\ before = after) => failovers = <<>>

\* A snapshot with a named default cluster and two attributes compared with itself.
C15_Witness ==
    /\ Diffed
    /\ before = after
    /\ AttributeCount(before) = 2
    /\ DefaultClusterOf(before) = "cluster1"
    /\ failovers = <<>>

\* C16: ComputeChangeSummary returns the empty summary whenever the before or the after
\* snapshot has no replication configuration, whatever the other side holds.
C16_SummaryWithoutConfig ==
    (Summarized /\ (before.ReplicationConfig = NIL \/ after.ReplicationConfig = NIL))
        => summary = EmptySummary

\* Before has no replication configuration, after names a default cluster and holds an
\* attribute, and the summary is empty.
C16_Witness ==
    /\ Summarized
    /\ before.ReplicationConfig = NIL
    /\ DefaultClusterOf(after) = "cluster1"
    /\ AttributeCount(after) = 1
    /\ summary = EmptySummary

\* A snapshot with its missing replication configuration replaced by one with an empty
\* default-cluster name and no attribute scopes.
WithEmptyConfig(s, activeClusters) ==
    IF s.ReplicationConfig # NIL THEN s
    ELSE [s EXCEPT !.ReplicationConfig =
             [ActiveClusterName |-> "", Clusters |-> NilSlice,
              ActiveClusters |-> activeClusters]]

\* C17: ComputeClusterFailovers on a snapshot without replication configuration gives
\* what it gives on a snapshot whose replication configuration has an empty
\* default-cluster name and no attribute scopes (no active clusters, or active clusters
\* without scopes); with none on both sides the result is the empty list.
C17_MissingConfig ==
    Diffed =>
        /\ \A ac \in {NIL, [AttributeScopes |-> NIL]} :
              failovers \in {ComputeClusterFailovers(WithEmptyConfig(before, ac),
                                                     WithEmptyConfig(after, ac), ord) :
                                 ord \in IterationOrders}
        /\ (before.ReplicationConfig = NIL /\ after.ReplicationConfig = NIL)
              => failovers = <<>>

\* Before has no replication configuration, after names a default cluster and holds an
\* attribute: a default record from the empty name and a record of the attribute.
C17_Witness ==
    /\ Diffed
    /\ before.ReplicationConfig = NIL
    /\ DefaultClusterOf(after) = "cluster1"
    /\ Cardinality(ChangedAttributes) = 1
    /\ Len(failovers) = 2
    /\ failovers[1] = DefaultFailover("", "cluster1")

-----------------------------------------------------------------------------
(* Claims on the list path *)

\* ListFailoverHistory returned a response.
ListReturned == pc \in {"list-done", "get-done"} /\ listResult.err = NIL

\* The storage page the list was built from, and the events of the response.
PageEntries == readResp.resp.Entries
ListedEvents == listResult.resp.FailoverEvents

\* The entries of the page the list has to return.
SelectedEntries ==
    SelectSeq(PageEntries,
              LAMBDA e : /\ e.OperationType = "Failover"
                         /\ shouldIncludeEvent(e.Comment, listRequest.Filters))

\* C18: the events ListFailoverHistory returns are the failover entries of the storage
\* page whose summary passes shouldIncludeEvent for the request's filters, one event
\* each, in the order of the page; no entry of another operation type is returned.
C18_Selection ==
    ListReturned =>
        /\ Len(ListedEvents) = Len(SelectedEntries)
        /\ \A i \in 1..Len(ListedEvents) :
              ListedEvents[i].ID = Ptr(SelectedEntries[i].EventID)
        /\ \A i \in 1..Len(ListedEvents) :
              \A j \in 1..Len(PageEntries) :
                 PageEntries[j].EventID = ListedEvents[i].ID.value
                    => PageEntries[j].OperationType = "Failover"

\* A page with an update whose summary passes the filters and a failover whose summary
\* does not, of which some but not all entries are returned.
C18_Witness ==
    /\ ListReturned
    /\ listRequest.Filters.DefaultActiveCluster # NIL
    /\ \E j \in 1..Len(PageEntries) :
          /\ PageEntries[j].OperationType = "Update"
          /\ shouldIncludeEvent(PageEntries[j].Comment, listRequest.Filters)
    /\ \E j \in 1..Len(PageEntries) :
          /\ PageEntries[j].OperationType = "Failover"
          /\ ~shouldIncludeEvent(PageEntries[j].Comment, listRequest.Filters)
    /\ Len(ListedEvents) > 0

\* ListFailoverHistory asked the storage collaborator.
StorageRead == pc \in {"list-done", "get-done"} /\ readRequest # NONE

\* The page size and the page token a request gives, 0 standing for none.
RequestedPageSize ==
    IF listRequest.Pagination = NIL THEN 0
    ELSE IF listRequest.Pagination.PageSize = NIL THEN 0
    ELSE listRequest.Pagination.PageSize.value
RequestedPageToken ==
    IF listRequest.Pagination = NIL THEN NoPageToken
    ELSE listRequest.Pagination.NextPageToken

\* C19: ListFailoverHistory asks the storage collaborator for the requested page size,
\* 5 when the request gives none or a non-positive one, with the request's page token;
\* it returns at most that many events, and it returns the collaborator's next-page
\* token unchanged, also when no entry of the page became an event.
C19_Paging ==
    /\ StorageRead =>
          /\ readRequest.PageSize = (IF RequestedPageSize > 0 THEN RequestedPageSize ELSE 5)
          /\ readRequest.NextPageToken = RequestedPageToken
    /\ ListReturned =>
          /\ Len(ListedEvents) <= readRequest.PageSize
          /\ listResult.resp.NextPageToken = readResp.resp.NextPageToken

\* A page with entries of which none became an event, before the end of the log.
C19_Witness ==
    /\ ListReturned
    /\ Len(PageEntries) > 0
    /\ Len(ListedEvents) = 0
    /\ readResp.resp.NextPageToken # NoPageToken
    /\ listResult.resp.NextPageToken = readResp.resp.NextPageToken

\* GetFailoverEvent returned for an event of the list.
GotListed == pc = "get-done"

\* The entry of the log the requested event was built from.
ListedEntry ==
    auditLog[CHOOSE i \in 1..Len(auditLog) :
                auditLog[i].EventID = request.FailoverEventID.value]

\* The transitions between the snapshots of an entry, in the orders the differ may
\* return them.
TransitionsOf(entry) ==
    {ComputeClusterFailovers(DecompressAndDeserialize(entry.StateBefore).domain,
                             DecompressAndDeserialize(entry.StateAfter).domain, ord) :
        ord \in IterationOrders}

\* C20: for every event ListFailoverHistory returns, GetFailoverEvent with the event's
\* id and created time asks the storage collaborator for the stored created time of the
\* event's entry, gets that entry, and returns its transitions, of which there is at
\* least one.
C20_AsClaimed ==
    GotListed =>
        /\ GetDomainAuditLogEntryRequest(request).CreatedTime = ListedEntry.CreatedTime
        /\ storage.resp.Entry = ListedEntry
        /\ getResult.err = NIL
        /\ getResult.resp.ClusterFailovers \in TransitionsOf(ListedEntry)
        /\ Len(getResult.resp.ClusterFailovers) > 0

\* The created time is rebuilt as stored when the stored one is a whole number of
\* milliseconds.
C20_WholeMillis ==
    GotListed /\ ListedEntry.CreatedTime % NanosPerMilli = 0 =>
        /\ GetDomainAuditLogEntryRequest(request).CreatedTime = ListedEntry.CreatedTime
        /\ storage.resp.Entry = ListedEntry
        /\ getResult.err = NIL
        /\ getResult.resp.ClusterFailovers \in TransitionsOf(ListedEntry)

\* A listed entry with a part of its created time below the millisecond is not found.
C20_SubMillisMissed ==
    GotListed /\ ListedEntry.CreatedTime % NanosPerMilli # 0 =>
        /\ GetDomainAuditLogEntryRequest(request).CreatedTime < ListedEntry.CreatedTime
        /\ storage.resp.Entry = NIL
        /\ getResult = [resp |-> GetFailoverEventResponse(NilSlice), err |-> NIL]

\* A listed failover found again whose snapshots do not differ.
C20_EmptyTransitions ==
    /\ GotListed
    /\ storage.resp.Entry = ListedEntry
    /\ getResult.err = NIL
    /\ Len(getResult.resp.ClusterFailovers) = 0

-----------------------------------------------------------------------------
(* Claims on the comparison as a whole *)

\* A snapshot with a scope that has no attribute map.
HasNilAttributeMap(s) ==
    /\ s.ReplicationConfig # NIL
    /\ s.ReplicationConfig.ActiveClusters # NIL
    /\ s.ReplicationConfig.ActiveClusters.AttributeScopes # NIL
    /\ \E sc \in DOMAIN s.ReplicationConfig.ActiveClusters.AttributeScopes :
          s.ReplicationConfig.ActiveClusters.AttributeScopes[sc].ClusterAttributes = NIL

\* C21: for every pair of snapshots, with or without replication configuration, active
\* clusters, scopes or attribute maps, ComputeChangeSummary returns a summary and a nil
\* error and ComputeClusterFailovers returns a list and a nil error, the pair without
\* change included.
C21_Totality ==
    /\ pc = "summarized" =>
          /\ compareErr = NIL
          /\ DOMAIN summary = {"ChangedFields", "DefaultClusterChanged",
                               "ClusterAttributesChanged"}
    /\ pc = "diffed" =>
          /\ compareErr = NIL
          /\ DOMAIN failovers = 1..Len(failovers)

\* Both calls returned for a pair without change whose snapshot has a scope without
\* attribute map.
C21_Witness ==
    /\ pc = "diffed"
    /\ before = after
    /\ HasNilAttributeMap(before)
    /\ compareErr = NIL
    /\ summary = EmptySummary
    /\ failovers = <<>>

\* The names in ChangedFields of the summary, and the place of one of them.
ChangedFieldNames == {summary.ChangedFields[i] : i \in 1..Len(summary.ChangedFields)}
PlaceOf(field) == CHOOSE i \in 1..Len(summary.ChangedFields) : summary.ChangedFields[i] = field

\* C23: in every summary of ComputeChangeSummary, ChangedFields has "ActiveClusterName"
\* exactly when DefaultClusterChanged is true and "ActiveClusters" exactly when
\* ClusterAttributesChanged is not empty; it has no other name and no name twice, and
\* "ActiveClusterName" comes before "ActiveClusters".
C23_ChangedFields ==
    Summarized =>
        /\ ("ActiveClusterName" \in ChangedFieldNames) <=> summary.DefaultClusterChanged
        /\ ("ActiveClusters" \in ChangedFieldNames)
              <=> (Len(summary.ClusterAttributesChanged) > 0)
        /\ ChangedFieldNames \subseteq {"ActiveClusterName", "ActiveClusters"}
        /\ Cardinality(ChangedFieldNames) = Len(summary.ChangedFields)
        /\ ChangedFieldNames = {"ActiveClusterName", "ActiveClusters"}
              => PlaceOf("ActiveClusterName") < PlaceOf("ActiveClusters")

\* A mutation that changed the default cluster and an attribute of both sides.
C23_Witness ==
    /\ Summarized
    /\ summary.ChangedFields = <<"ActiveClusterName", "ActiveClusters">>
    /\ summary.DefaultClusterChanged
    /\ Len(summary.ClusterAttributesChanged) = 1

\* C24: every record ComputeClusterFailovers returns has IsDefaultCluster, FromCluster
\* and ToCluster set, and its IsDefaultCluster is true exactly when it has no
\* ClusterAttribute.
C24_RecordShape ==
    Diffed =>
        \A i \in 1..Len(failovers) :
            /\ failovers[i].FromCluster # NIL
            /\ failovers[i].ToCluster # NIL
            /\ failovers[i].IsDefaultCluster \in BOOLEAN
            /\ failovers[i].IsDefaultCluster <=> (failovers[i].ClusterAttribute = NIL)

\* A list with the record of the default cluster and the record of an attribute.
C24_Witness ==
    /\ Diffed
    /\ \E i, j \in 1..Len(failovers) :
          /\ failovers[i].IsDefaultCluster
          /\ failovers[i].ClusterAttribute = NIL
          /\ ~failovers[j].IsDefaultCluster
          /\ failovers[j].ClusterAttribute = [Scope |-> "region", Name |-> "us-east-1"]

-----------------------------------------------------------------------------
(* Claims on the list filter, continued *)

-----------------------------------------------------------------------------
(* Claims on the differ and the summary, what counts as a change *)

\* The attributes whose failover version differs between the snapshots while their
\* owning cluster has the same name, an absent side counting as "" and 0.
VersionOnlyChanged ==
    {a \in AttributesIn(before) \cup AttributesIn(after) :
        /\ OwnerOf(before, a.Scope, a.Name).ActiveClusterName
              = OwnerOf(after, a.Scope, a.Name).ActiveClusterName
        /\ OwnerOf(before, a.Scope, a.Name).FailoverVersion
              # OwnerOf(after, a.Scope, a.Name).FailoverVersion}

\* C26: every record of ComputeClusterFailovers has a FromCluster name different from its
\* ToCluster name, and an attribute of which only the failover version changed has no
\* record in the failovers and no ref in the summary.
C26_NameChangeOnly ==
    Diffed =>
        /\ \A i \in 1..Len(failovers) :
              failovers[i].FromCluster.ActiveClusterName
                  # failovers[i].ToCluster.ActiveClusterName
        /\ \A a \in VersionOnlyChanged :
              /\ AttributeRecords(failovers, a.Scope, a.Name) = {}
              /\ ClusterAttributeRef(a.Scope, a.Name) \notin RefsOf(summary)

\* An attribute that both snapshots hold kept its cluster and changed its version, while
\* the mutation has one transition of another kind.
C26_Witness ==
    /\ Diffed
    /\ \E a \in VersionOnlyChanged :
          /\ AttributePresent(before, a.Scope, a.Name)
          /\ AttributePresent(after, a.Scope, a.Name)
          /\ OwnerOf(before, a.Scope, a.Name).ActiveClusterName = "cluster1"
    /\ Len(failovers) = 1
    /\ Len(summary.ClusterAttributesChanged) = 0

\* C27: for every pair of snapshots, each ref of the summary has a record of the same
\* scope and name, not of the default cluster, among the failovers, and a summary with
\* DefaultClusterChanged has a default record among them.
C27_SummaryWithinDiffer ==
    Diffed =>
        /\ \A ref \in RefsOf(summary) :
              AttributeRecords(failovers, ref.Scope, ref.Name) # {}
        /\ summary.DefaultClusterChanged => DefaultRecords(failovers) # {}

\* The summary reports the default cluster and one attribute, and the failovers hold the
\* record of each.
C27_Witness ==
    /\ Diffed
    /\ summary.DefaultClusterChanged
    /\ Len(summary.ClusterAttributesChanged) = 1
    /\ DefaultRecords(failovers) # {}
    /\ \A ref \in RefsOf(summary) :
          AttributeRecords(failovers, ref.Scope, ref.Name) # {}

\* C28: when the failovers hold a record of the default cluster, it is their first
\* element and every other element is the record of an attribute.
C28_DefaultFirst ==
    (Diffed /\ DefaultRecords(failovers) # {}) =>
        /\ failovers[1].IsDefaultCluster
        /\ \A i \in 2..Len(failovers) : ~failovers[i].IsDefaultCluster

\* A failover of the default cluster and of two attributes: element 0 is the default
\* transition.
C28_Witness ==
    /\ Diffed
    /\ Len(failovers) = 3
    /\ failovers[1].IsDefaultCluster
    /\ failovers[1].ToCluster.ActiveClusterName = "cluster2"
    /\ ~failovers[2].IsDefaultCluster
    /\ ~failovers[3].IsDefaultCluster

-----------------------------------------------------------------------------
(* Claims on the classification of an update request *)

Classified == pc = "classified"

\* The request asks for the default cluster, or for the active clusters, the domain has.
AsksForCurrent ==
    /\ before.ReplicationConfig # NIL
    /\ \/ updateRequest.ActiveClusterName
             = Ptr(before.ReplicationConfig.ActiveClusterName)
       \/ /\ updateRequest.ActiveClusters # NIL
          /\ updateRequest.ActiveClusters = before.ReplicationConfig.ActiveClusters

\* C29: DetermineOperationType returns the failover type exactly when the request sets
\* ActiveClusterName or ActiveClusters and the update type otherwise, whether or not the
\* request asks for the configuration the domain already has.
C29_OperationType ==
    Classified =>
        /\ operation = "Failover"
              <=> (updateRequest.ActiveClusterName # NIL \/ updateRequest.ActiveClusters # NIL)
        /\ operation = "Update"
              <=> (updateRequest.ActiveClusterName = NIL /\ updateRequest.ActiveClusters = NIL)

\* A request that sets only ActiveClusters, to what the domain has, is a failover.
C29_Witness ==
    /\ Classified
    /\ updateRequest.ActiveClusterName = NIL
    /\ updateRequest.ActiveClusters # NIL
    /\ AsksForCurrent
    /\ operation = "Failover"

-----------------------------------------------------------------------------
(* Claims on concurrent calls *)

Concurrent == pc = "concurrent"

\* The call of goroutine g has returned.
Returned(g) == calls[g].pc = "returned"

\* The addresses of the objects a ClusterFailover pointer leads to.
ReachOfClusterFailover(ref) ==
    LET c == heap[ref.addr].value
    IN {ref.addr, c.FromCluster.addr, c.ToCluster.addr, c.IsDefaultCluster.addr}
       \cup (IF c.ClusterAttribute = NIL THEN {} ELSE {c.ClusterAttribute.addr})

\* The addresses of the objects the result of a returned call leads to.
ReachOfResult(g) ==
    IF calls[g].fn = "ComputeClusterFailovers"
    THEN UNION {ReachOfClusterFailover(calls[g].result.refs[i]) :
                   i \in 1..Len(calls[g].result.refs)}
    ELSE IF calls[g].fn = "ComputeChangeSummary"
    THEN LET c == heap[calls[g].result.ref.addr].value
         IN {calls[g].result.ref.addr}
            \cup {c.ClusterAttributesChanged[i].addr : i \in 1..Len(c.ClusterAttributesChanged)}
    ELSE {}

\* The result of a returned call is one the function returns when it runs alone on the
\* arguments.
ResultAsAlone(g) ==
    IF calls[g].fn = "ComputeClusterFailovers"
    THEN [i \in 1..Len(calls[g].result.refs) |->
             DerefClusterFailover(heap, calls[g].result.refs[i])]
         \in {ComputeClusterFailovers(args.before, args.after, ord) : ord \in IterationOrders}
    ELSE IF calls[g].fn = "ComputeChangeSummary"
    THEN DerefChangeSummary(heap, calls[g].result.ref)
         \in {ComputeChangeSummary(args.before, args.after, ord) : ord \in IterationOrders}
    ELSE calls[g].result.bool = shouldIncludeEvent(args.summaryJSON, args.filters)

\* C22: concurrent calls of ComputeChangeSummary, ComputeClusterFailovers and
\* shouldIncludeEvent on the same snapshots, summary text and filters leave these
\* unchanged; in every interleaving each call returns what it returns alone, out of
\* objects it allocated itself, and the results of two calls share no object.
C22_Purity ==
    /\ [][args' = args]_vars
    /\ [](Concurrent =>
             /\ \A g \in Goroutines :
                   Returned(g) =>
                      /\ ResultAsAlone(g)
                      /\ \A a \in ReachOfResult(g) : heap[a].owner = g
             /\ \A g1, g2 \in Goroutines :
                   (g1 # g2 /\ Returned(g1) /\ Returned(g2))
                      => ReachOfResult(g1) \cap ReachOfResult(g2) = {}
             /\ args \in PureArguments)

\* Two calls of ComputeClusterFailovers on the same mixed failover have both returned its
\* two records, each out of objects of its own.
C22_Witness ==
    /\ Concurrent
    /\ args.before = MixedMutation[1]
    /\ args.after = MixedMutation[2]
    /\ \A g \in Goroutines :
          /\ calls[g].fn = "ComputeClusterFailovers"
          /\ Returned(g)
          /\ Len(calls[g].result.refs) = 2
          /\ Cardinality(ReachOfResult(g)) = 9

-----------------------------------------------------------------------------
(* Claims on the concurrent priority queue *)

\* The goroutines whose call on the sequential queue is under way, those that change
\* the queue and those that only read it.
InUnderlying == {g \in Callers : callers[g].pc \in {"running", "unlock"}}
Writing == {g \in InUnderlying : callers[g].op.method \in {"Add", "Remove"}}
Reading == {g \in InUnderlying : callers[g].op.method \in {"Peek", "IsEmpty", "Len"}}

\* The goroutines outside any method hold no lock.
ReturnedHoldNothing ==
    \A g \in Callers :
        callers[g].pc = "idle" => (g \notin rwmutex.readers /\ g \notin rwmutex.writer)

\* C30: in every interleaving an Add or Remove runs on the sequential queue while no
\* other method does, Peek, IsEmpty and Len run together only with one another, a method
\* that has returned, with an error or without, holds no lock, and every method called
\* returns.
C30_Locking ==
    /\ [](/\ Writing # {} => Cardinality(InUnderlying) = 1
          /\ Reading # {} => Writing = {}
          /\ ReturnedHoldNothing)
    /\ \A g \in Callers : (callers[g].pc # "idle") ~> (callers[g].pc = "idle")

\* Two readers are on the sequential queue at once, one of them a Peek that has its
\* error from the empty queue and its read lock still to release, while a writer that
\* announced itself waits for them to leave.
C30_Witness ==
    /\ pc = "queue"
    /\ Cardinality(Reading) = 2
    /\ \E g \in Reading :
          callers[g].op.method = "Peek" /\ callers[g].pc = "unlock" /\ callers[g].err
    /\ \E g \in Callers : callers[g].pc = "drain"
====
